---------------------------- MODULE Spec2Model ----------------------------
(***************************************************************************)
(* A model of harmony's stateless authentication: the Claim (subject,      *)
(* issued-at, expires-at), its issuance (serde_json -> ChaCha20-Poly1305   *)
(* seal -> base64) and verification, the axum extractor that guards the    *)
(* protected routes, and the person handlers that issue and consume        *)
(* claims.                                                                 *)
(*                                                                         *)
(* Conventions.                                                            *)
(*  - A byte string (Vec<u8>, &[u8], String) is a sequence of numbers in   *)
(*    0..255; text is its ASCII codes.                                     *)
(*  - Option<T> is None or Some(v); Result<T, E> is Ok(v) or Err(e).       *)
(*  - TLC's integers are 32 bits wide, so clock readings are milliseconds  *)
(*    counted from the instant the model starts at, not from 1970.         *)
(*  - ring's ChaCha20 block function and Poly1305 are library code; they   *)
(*    are modelled by their structure (a keystream XORed onto the message, *)
(*    a keyed polynomial MAC over the ciphertext, a 16 byte tag appended   *)
(*    and compared on open) at a reduced word size.  The polynomial is     *)
(*    evaluated in a prime field, so two ciphertexts that differ in one    *)
(*    byte never share a tag; the 2^-100 collisions of the real MAC are    *)
(*    not modelled.                                                        *)
(***************************************************************************)
EXTENDS Integers, Sequences, FiniteSets, TLC

None == [some |-> FALSE]
Some(v) == [some |-> TRUE, value |-> v]
Ok(v) == [ok |-> TRUE, value |-> v]
Err(e) == [ok |-> FALSE, error |-> e]

(***************************************************************************)
(* Bounds of the model.                                                    *)
(***************************************************************************)
\* Clock readings are k and Week + k for k in 0..MaxTick.
MaxTick == 1
\* At most this many claims are issued in one behaviour.
MaxIssued == 2

(***************************************************************************)
(* Bytes.                                                                  *)
(***************************************************************************)
Byte == 0..255

RECURSIVE XorBits(_, _, _)
XorBits(a, b, k) ==
    IF k = 0 THEN 0
    ELSE ((a + b) % 2) + 2 * XorBits(a \div 2, b \div 2, k - 1)

\* a XOR b on bytes.
Xor8(a, b) == XorBits(a, b, 8)

RECURSIVE SumTo(_, _, _)
\* w[lo] * lo + ... + w[hi] * hi, by halves.
SumTo(w, lo, hi) ==
    IF lo > hi THEN 0
    ELSE IF lo = hi THEN w[lo] * lo
    ELSE LET mid == (lo + hi) \div 2
         IN  SumTo(w, lo, mid) + SumTo(w, mid + 1, hi)

(***************************************************************************)
(* common/encode.rs: the standard base64 alphabet with padding.            *)
(***************************************************************************)
PadChar == 61

B64Char(s) ==
    IF s < 26 THEN 65 + s
    ELSE IF s < 52 THEN 97 + (s - 26)
    ELSE IF s < 62 THEN 48 + (s - 52)
    ELSE IF s = 62 THEN 43
    ELSE 47

\* The sextet of a character of the alphabet, -1 for any other byte.
B64Val(c) ==
    IF c >= 65 /\ c <= 90 THEN c - 65
    ELSE IF c >= 97 /\ c <= 122 THEN c - 97 + 26
    ELSE IF c >= 48 /\ c <= 57 THEN c - 48 + 52
    ELSE IF c = 43 THEN 62
    ELSE IF c = 47 THEN 63
    ELSE -1

base64_encode(data) ==
    LET n == Len(data)
        At(i) == IF i <= n THEN data[i] ELSE 0
    IN  [k \in 1..(4 * ((n + 2) \div 3)) |->
            LET g == (k - 1) \div 4
                j == (k - 1) % 4
                b0 == At(3 * g + 1)
                b1 == At(3 * g + 2)
                b2 == At(3 * g + 3)
            IN  IF j = 0 THEN B64Char(b0 \div 4)
                ELSE IF j = 1 THEN B64Char((b0 % 4) * 16 + (b1 \div 16))
                ELSE IF j = 2
                     THEN (IF 3 * g + 2 > n THEN PadChar
                           ELSE B64Char((b1 % 16) * 4 + (b2 \div 64)))
                ELSE (IF 3 * g + 3 > n THEN PadChar ELSE B64Char(b2 % 64))]

\* Base64.decode of the STANDARD engine: the length is a multiple of four,
\* padding is canonical, every other byte is of the alphabet, and the bits
\* the padding leaves over are zero.
base64_decode(data) ==
    LET n == Len(data)
        pad == IF n >= 1 /\ data[n] = PadChar
               THEN (IF n >= 2 /\ data[n - 1] = PadChar THEN 2 ELSE 1)
               ELSE 0
        V(i) == IF i <= n - pad THEN B64Val(data[i]) ELSE 0
        okLen == n % 4 = 0
        okChars == \A i \in 1..(n - pad) : B64Val(data[i]) >= 0
        okBits == IF pad = 1 THEN V(n - 1) % 4 = 0
                  ELSE IF pad = 2 THEN V(n - 2) % 16 = 0
                  ELSE TRUE
    IN  IF okLen /\ okChars /\ okBits
        THEN Ok([k \in 1..((n \div 4) * 3 - pad) |->
                    LET g == (k - 1) \div 3
                        j == (k - 1) % 3
                    IN  IF j = 0 THEN V(4 * g + 1) * 4 + (V(4 * g + 2) \div 16)
                        ELSE IF j = 1
                             THEN (V(4 * g + 2) % 16) * 16 + (V(4 * g + 3) \div 4)
                        ELSE (V(4 * g + 3) % 4) * 64 + V(4 * g + 4)])
        ELSE Err("base64")

(***************************************************************************)
(* common/cipher/chacha20_poly1305.rs: the AEAD engine, no associated      *)
(* data, one fixed nonce.                                                  *)
(***************************************************************************)
KEY_LEN == 32
NONCE_LEN == 12
TAG_LEN == 16
\* The field of the model's polynomial MAC (Poly1305 uses 2^130 - 5).
PolyP == 32749

ChaCha20Poly1305_new(key, nonce) ==
    IF Len(key) = KEY_LEN
    THEN Ok([key |-> key, nonce |-> nonce])
    ELSE Err("ring::error::Unspecified")

\* Byte i of the ChaCha20 keystream of (key, nonce), block counter 1 onwards.
KeyStream(self, i) ==
    (self.key[((i - 1) % KEY_LEN) + 1] * 5
       + self.nonce[((i - 1) % NONCE_LEN) + 1] * 3 + 17 * i) % 256

\* The one-time Poly1305 key (r, s): keystream block 0 of (key, nonce).
PolyR(self) ==
    1 + ((SumTo(self.key, 1, KEY_LEN) + 3 * SumTo(self.nonce, 1, NONCE_LEN)) % (PolyP - 1))

PolyS(self) ==
    (7 * SumTo(self.key, 1, KEY_LEN) + SumTo(self.nonce, 1, NONCE_LEN)) % PolyP

Square(h) == (h * h) % PolyP

RECURSIVE PowMod(_, _)
\* r^k in the field.
PowMod(r, k) ==
    IF k = 0 THEN 1
    ELSE (Square(PowMod(r, k \div 2)) * (IF k % 2 = 1 THEN r ELSE 1)) % PolyP

RECURSIVE PolyEval(_, _, _, _)
\* The polynomial with the coefficients data[lo..hi], each plus one, at r:
\* (data[lo] + 1) * r^(hi - lo + 1) + ... + (data[hi] + 1) * r, by halves.
PolyEval(data, lo, hi, r) ==
    IF lo > hi THEN 0
    ELSE IF lo = hi THEN ((data[lo] + 1) * r) % PolyP
    ELSE LET mid == (lo + hi) \div 2
         IN  (PolyEval(data, lo, mid, r) * PowMod(r, hi - mid)
                + PolyEval(data, mid + 1, hi, r)) % PolyP

\* The tag of a ciphertext: the MAC over the bytes and their count, as a
\* little-endian number of TAG_LEN bytes.
Mac(ct, r, s) == (((PolyEval(ct, 1, Len(ct), r) + Len(ct)) * r) + s) % PolyP

TagBytes(t) ==
    [j \in 1..TAG_LEN |-> IF j = 1 THEN t % 256 ELSE IF j = 2 THEN t \div 256 ELSE 0]

Tag(self, ct) == TagBytes(Mac(ct, PolyR(self), PolyS(self)))

\* seal_in_place_append_tag
\* The keystream XORed onto data: ChaCha20 in either direction.
ApplyKeyStream(self, data) ==
    [i \in 1..Len(data) |-> Xor8(data[i], KeyStream(self, i))]

\* seal_in_place_append_tag
AppendTag(self, ct) == Ok(ct \o Tag(self, ct))

encrypt(self, message) == AppendTag(self, ApplyKeyStream(self, message))

\* open_in_place
\* A variant that opens without comparing the tag.
OpenTagged_Unchecked(self, ct, tag) == Ok(ApplyKeyStream(self, ct))

\* open_in_place, the input split into ciphertext and tag.
OpenTagged(self, ct, tag) ==
    IF tag # Tag(self, ct) THEN Err("ring::error::Unspecified")
    ELSE Ok(ApplyKeyStream(self, ct))

\* A variant that opens an input shorter than a tag as the empty message.
decrypt_Lenient(self, message) ==
    IF Len(message) < TAG_LEN THEN Ok(<<>>)
    ELSE OpenTagged(self, SubSeq(message, 1, Len(message) - TAG_LEN),
                    SubSeq(message, Len(message) - TAG_LEN + 1, Len(message)))

decrypt(self, message) ==
    IF Len(message) < TAG_LEN THEN Err("ring::error::Unspecified")
    ELSE OpenTagged(self, SubSeq(message, 1, Len(message) - TAG_LEN),
                    SubSeq(message, Len(message) - TAG_LEN + 1, Len(message)))

(***************************************************************************)
(* The state.                                                              *)
(***************************************************************************)
VARIABLES
    env,            \* the process environment after dotenvy: SECRET_KEY, SECRET_NONCE
    proc,           \* main's position: "starting" or "serving"
    ENCRYPTER,      \* consts::claim_encrypt::ENCRYPTER, a LazyLock
    now,            \* the clock, in milliseconds
    person,         \* the rows of table person
    person_seq,     \* the AUTOINCREMENT counter of table person
    issued,         \* the claims issued so far, each with its token (observation)
    changed_since,  \* the issued tokens whose account was updated after issuance (observation)
    last,           \* the request in progress and its answer (observation)
    finance_object,             \* the rows of table finance_object
    finance_trade,              \* the rows of table finance_trade
    finance_trade_transaction,  \* the rows of table finance_trade_transaction
    sqlite_sequence,            \* the AUTOINCREMENT counters of the three finance tables
    inflight,       \* the requests whose Claim is being extracted, each on a thread of its own
    probe           \* the last call of a function made on its own, and what it returned (observation)

\* The finance tables.
finance == <<finance_object, finance_trade, finance_trade_transaction, sqlite_sequence>>

vars == <<env, proc, ENCRYPTER, now, person, person_seq, issued, changed_since, last,
          finance, inflight, probe>>

(***************************************************************************)
(* time::timestamp().as_millis(): the clock reading.                       *)
(***************************************************************************)
timestamp == now

(***************************************************************************)
(* consts.rs: ENCRYPTER is built on its first use, from the environment.   *)
(* expect() and unwrap() panic; a LazyLock whose initialiser panicked is   *)
(* poisoned and panics on every later use.                                 *)
(***************************************************************************)
ENCRYPTER_init ==
    IF ~env.SECRET_KEY.some THEN Err("SECRET_KEY must be set")
    ELSE IF Len(env.SECRET_KEY.value) # KEY_LEN THEN Err("TryFromSliceError")
    ELSE IF ~env.SECRET_NONCE.some THEN Err("SECRET_NONCE must be set")
    ELSE IF Len(env.SECRET_NONCE.value) # NONCE_LEN THEN Err("TryFromSliceError")
    ELSE ChaCha20Poly1305_new(env.SECRET_KEY.value, env.SECRET_NONCE.value)

Uninit == [state |-> "uninit"]
Poisoned == [state |-> "poisoned"]
Ready(v) == [state |-> "ready", value |-> v]

\* LazyLock::deref: the state of the cell after a use of it.
LazyForce(cell) ==
    IF cell.state = "uninit"
    THEN (IF ENCRYPTER_init.ok THEN Ready(ENCRYPTER_init.value) ELSE Poisoned)
    ELSE cell

(***************************************************************************)
(* api/http/request/access.rs: Claim { sub: i64, iat: u128, exp: u128 }.   *)
(***************************************************************************)
RECURSIVE Dec(_)
\* The decimal digits of a natural number.
Dec(n) == IF n < 10 THEN <<48 + n>> ELSE Append(Dec(n \div 10), 48 + (n % 10))

\* itoa of an i64.
DecInt(n) == IF n < 0 THEN <<45>> \o Dec(-n) ELSE Dec(n)

KeySub == <<115, 117, 98>>
KeyIat == <<105, 97, 116>>
KeyExp == <<101, 120, 112>>

\* A variant that writes iat and exp under each other's name.
to_vec_Swapped(self) ==
    <<123, 34>> \o KeySub \o <<34, 58>> \o DecInt(self.sub)
      \o <<44, 34>> \o KeyIat \o <<34, 58>> \o Dec(self.exp)
      \o <<44, 34>> \o KeyExp \o <<34, 58>> \o Dec(self.iat) \o <<125>>

\* serde_json::to_vec(&claim): {"sub":S,"iat":I,"exp":E}
to_vec(self) ==
    <<123, 34>> \o KeySub \o <<34, 58>> \o DecInt(self.sub)
      \o <<44, 34>> \o KeyIat \o <<34, 58>> \o Dec(self.iat)
      \o <<44, 34>> \o KeyExp \o <<34, 58>> \o Dec(self.exp) \o <<125>>

\* The greatest number of the model's integers, which stand for i64 and u128.
MaxInt == 2147483647

IsDigit(c) == c >= 48 /\ c <= 57

\* acc with the digit d appended, -1 once the number is out of range.
Shift(acc, d) ==
    IF acc = -1 \/ acc > (MaxInt - d) \div 10 THEN -1 ELSE acc * 10 + d

RECURSIVE Digits(_, _, _, _)
\* The run of digits of b from pos: its value, its length, the place after it.
Digits(b, pos, acc, count) ==
    IF pos > Len(b) \/ ~IsDigit(b[pos])
    THEN [value |-> acc, count |-> count, next |-> pos]
    ELSE Digits(b, pos + 1, Shift(acc, b[pos] - 48), count + 1)

\* A JSON integer of the digits d, the first at p; serde_json reads -0 as
\* a floating point number.
Number(b, p, neg, d) ==
    IF b[p] = 48 /\ d.count > 1 THEN Err("invalid number")
    ELSE IF d.value = -1 THEN Err("number out of range")
    ELSE IF neg /\ d.value = 0 THEN Err("invalid type")
    ELSE Ok([value |-> IF neg THEN 0 - d.value ELSE d.value, next |-> d.next])

\* A JSON integer from p on, after the minus sign if neg.
Unsigned(b, p, neg) ==
    IF p > Len(b) \/ ~IsDigit(b[p]) THEN Err("expected value")
    ELSE Number(b, p, neg, Digits(b, p, 0, 0))

\* A JSON integer at pos: an optional minus sign, then digits with no
\* leading zero.
ParseInt(b, pos) ==
    IF pos <= Len(b) /\ b[pos] = 45
    THEN Unsigned(b, pos + 1, TRUE)
    ELSE Unsigned(b, pos, FALSE)

RECURSIVE FindQuote(_, _)
\* The place of the next double quote at or after pos (0: none); a
\* backslash escape is outside the grammar of the model.
FindQuote(b, pos) ==
    IF pos > Len(b) \/ b[pos] = 92 THEN 0
    ELSE IF b[pos] = 34 THEN pos
    ELSE FindQuote(b, pos + 1)

\* A JSON string at pos.
ParseKey(b, pos) ==
    IF pos > Len(b) \/ b[pos] # 34 THEN Err("key must be a string")
    ELSE LET q == FindQuote(b, pos + 1)
         IN  IF q = 0 THEN Err("EOF while parsing a string")
             ELSE Ok([value |-> SubSeq(b, pos + 1, q - 1), next |-> q + 1])

NoFields == [sub |-> None, iat |-> None, exp |-> None]

\* The derived Deserialize of Claim, at the end of the members.
BuildClaim(acc) ==
    IF ~acc.sub.some THEN Err("missing field sub")
    ELSE IF ~acc.iat.some THEN Err("missing field iat")
    ELSE IF ~acc.exp.some THEN Err("missing field exp")
    ELSE Ok([sub |-> acc.sub.value, iat |-> acc.iat.value, exp |-> acc.exp.value])

\* One member read into the fields: a field given twice or an unsigned
\* field given a negative number is an error, an unknown key is ignored.
SetField(acc, key, value) ==
    IF key = KeySub
    THEN (IF acc.sub.some THEN Err("duplicate field sub")
          ELSE Ok([acc EXCEPT !.sub = Some(value)]))
    ELSE IF key = KeyIat
    THEN (IF acc.iat.some THEN Err("duplicate field iat")
          ELSE IF value < 0 THEN Err("invalid value")
          ELSE Ok([acc EXCEPT !.iat = Some(value)]))
    ELSE IF key = KeyExp
    THEN (IF acc.exp.some THEN Err("duplicate field exp")
          ELSE IF value < 0 THEN Err("invalid value")
          ELSE Ok([acc EXCEPT !.exp = Some(value)]))
    ELSE Ok(acc)

RECURSIVE ParseMembers(_, _, _)
\* The members of an object from pos, "key":integer separated by commas,
\* up to the closing brace, which must end the input.
ParseMembers(b, pos, acc) ==
    LET k == ParseKey(b, pos)
    IN  IF ~k.ok THEN k
        ELSE IF k.value.next > Len(b) \/ b[k.value.next] # 58 THEN Err("expected :")
        ELSE LET v == ParseInt(b, k.value.next + 1)
             IN  IF ~v.ok THEN v
                 ELSE LET f == SetField(acc, k.value.value, v.value.value)
                          p == v.value.next
                      IN  IF ~f.ok THEN f
                          ELSE IF p > Len(b) THEN Err("EOF while parsing an object")
                          ELSE IF b[p] = 44 THEN ParseMembers(b, p + 1, f.value)
                          ELSE IF b[p] # 125 THEN Err("expected , or }")
                          ELSE IF p # Len(b) THEN Err("trailing characters")
                          ELSE BuildClaim(f.value)

\* serde_json::from_slice::<Claim>, for input without white space whose
\* member values are integers: an object with the three fields in any order.
from_slice(b) ==
    IF Len(b) = 0 THEN Err("EOF while parsing a value")
    ELSE IF b[1] # 123 THEN Err("invalid type")
    ELSE IF Len(b) >= 2 /\ b[2] = 125
    THEN (IF Len(b) = 2 THEN BuildClaim(NoFields) ELSE Err("trailing characters"))
    ELSE ParseMembers(b, 2, NoFields)

WEEK_MS == 7 * 24 * 60 * 60 * 1000

\* A variant whose claims last seven days of seconds.
Claim_new_Seconds(sub) ==
    [sub |-> sub, iat |-> timestamp, exp |-> timestamp + 7 * 24 * 60 * 60]

Claim_new(sub) ==
    LET iat == timestamp
        exp == iat + WEEK_MS
    IN  [sub |-> sub, iat |-> iat, exp |-> exp]

\* A variant that takes the issue time for the subject.
Claim_subject_Iat(self) == self.iat

Claim_subject(self) == self.sub

Claim_expire(self) == self.exp

\* A variant for which a claim expires at its expiry, not after it.
Claim_is_expire_Inclusive(self) == self.exp <= timestamp

\* A variant for which a claim is expired for seven days and good after.
Claim_is_expire_Window(self) == self.exp < timestamp /\ timestamp <= self.exp + WEEK_MS

Claim_is_expire(self) == self.exp < timestamp

\* Claim::issue after the encryption: "?" hands an error on, the ciphertext
\* is encoded.
Encoded(ciphertext) ==
    IF ~ciphertext.ok THEN ciphertext
    ELSE Ok(base64_encode(ciphertext.value))

\* A variant that seals each claim under a nonce of its own, counted up
\* from the engine's.
Claim_issue_FreshNonce(self, enc) ==
    Encoded(encrypt([enc EXCEPT !.nonce[1] = (@ + Cardinality(issued)) % 256],
                    to_vec(self)))

\* Claim::issue with ENCRYPTER ready, holding the engine enc.
Claim_issue(self, enc) == Encoded(encrypt(enc, to_vec(self)))

\* A variant of verify that turns an expired claim down itself.
Decrypted_Fresh(ciphertext, cell) ==
    IF ~ciphertext.ok
    THEN [panic |-> FALSE, result |-> Err(ciphertext.error),
          steps |-> <<"Decoding", "Decrypting">>, cell |-> cell]
    ELSE [panic |-> FALSE,
          result |-> IF from_slice(ciphertext.value).ok
                        /\ from_slice(ciphertext.value).value.exp < timestamp
                     THEN Err("expired")
                     ELSE from_slice(ciphertext.value),
          steps |-> <<"Decoding", "Decrypting", "Deserializing">>, cell |-> cell]

\* Claim::verify after the decryption, in the cell's engine, of a decoded
\* value.
Decrypted(ciphertext, cell) ==
    IF ~ciphertext.ok
    THEN [panic |-> FALSE, result |-> Err(ciphertext.error),
          steps |-> <<"Decoding", "Decrypting">>, cell |-> cell]
    ELSE [panic |-> FALSE, result |-> from_slice(ciphertext.value),
          steps |-> <<"Decoding", "Decrypting", "Deserializing">>, cell |-> cell]

\* Claim::verify after the decoding, cell being ENCRYPTER once used.
Decoded(message, cell) ==
    IF ~message.ok
    THEN [panic |-> FALSE, result |-> Err(message.error),
          steps |-> <<"Decoding">>, cell |-> ENCRYPTER]
    ELSE IF cell.state = "poisoned"
    THEN [panic |-> TRUE, result |-> Err("panic"),
          steps |-> <<"Decoding", "Decrypting">>, cell |-> cell]
    ELSE Decrypted(decrypt(cell.value, message.value), cell)

\* Claim::verify.  result is the Result returned, panic tells that the use
\* of ENCRYPTER panicked instead, steps are the steps entered and cell is
\* ENCRYPTER afterwards.
Claim_verify(value) == Decoded(base64_decode(value), LazyForce(ENCRYPTER))

(***************************************************************************)
(* api/http/response.rs                                                    *)
(***************************************************************************)
Response_new == [ok |-> TRUE, code |-> 200, data |-> None, message |-> None]

Response_ok(data) == [Response_new EXCEPT !.data = Some(data)]

Response_not_found(message) ==
    [Response_new EXCEPT !.ok = FALSE, !.code = 404, !.message = Some(message)]

\* A variant whose status code tells an expired claim from the others.
Response_bad_request_ByReason(message) ==
    [Response_new EXCEPT !.ok = FALSE,
                         !.code = IF message = "expired claim" THEN 401 ELSE 400,
                         !.message = Some(message)]

Response_bad_request(message) ==
    [Response_new EXCEPT !.ok = FALSE, !.code = 400, !.message = Some(message)]

(***************************************************************************)
(* api/http/mod.rs: paginate.  A usize is 64 bits wide, more than the      *)
(* model's integers hold, so a usize is written as its USIZE_BYTES bytes,  *)
(* the lowest first.  A product that does not fit in a usize panics in a   *)
(* build with overflow checks and wraps in one without; paginate is the    *)
(* set of the outcomes.                                                    *)
(***************************************************************************)
USIZE_BYTES == 8

\* The usize of a number below 2^31.
ToUsize(n) ==
    [i \in 1..USIZE_BYTES |->
        IF i = 1 THEN n % 256
        ELSE IF i = 2 THEN (n \div 256) % 256
        ELSE IF i = 3 THEN (n \div 65536) % 256
        ELSE IF i = 4 THEN n \div 16777216
        ELSE 0]

USIZE_MAX == [i \in 1..USIZE_BYTES |-> 255]

IsZero(a) == \A i \in 1..Len(a) : a[i] = 0

\* a - 1, for a not zero: the bytes up to the lowest non-zero one change.
Pred(a) ==
    LET low == CHOOSE i \in 1..Len(a) : a[i] # 0 /\ \A j \in 1..(i - 1) : a[j] = 0
    IN  [i \in 1..Len(a) |-> IF i < low THEN 255 ELSE IF i = low THEN a[i] - 1 ELSE a[i]]

\* The sum of the products a[i] * b[j] that weigh 256^(k - 1).
Column(a, b, k) ==
    LET Pairs == {i \in 1..Len(a) : k + 1 - i \in 1..Len(b)}
        RECURSIVE Sum(_)
        Sum(S) == IF S = {} THEN 0
                  ELSE LET i == CHOOSE x \in S : TRUE
                       IN  a[i] * b[k + 1 - i] + Sum(S \ {i})
    IN  Sum(Pairs)

RECURSIVE Carried(_, _, _, _)
\* The bytes k onwards of the product a * b, carry being carried into k.
Carried(a, b, k, carry) ==
    IF k > Len(a) + Len(b) THEN <<>>
    ELSE <<(Column(a, b, k) + carry) % 256>>
           \o Carried(a, b, k + 1, (Column(a, b, k) + carry) \div 256)

\* a * b in full: 2 * USIZE_BYTES bytes.
Product(a, b) == Carried(a, b, 1, 0)

\* What (page - 1) * page_size makes of the product in full.
Multiplied(page_size, full) ==
    LET wrapped == [panic |-> FALSE, limit |-> page_size,
                    offset |-> SubSeq(full, 1, USIZE_BYTES)]
    IN  IF IsZero(SubSeq(full, USIZE_BYTES + 1, 2 * USIZE_BYTES))
        THEN {wrapped}
        ELSE {wrapped, [panic |-> TRUE]}

\* paginate once page and page_size have their defaults.
Defaulted(page, page_size) == Multiplied(page_size, Product(Pred(page), page_size))

paginate(page, page_size) ==
    Defaulted(IF IsZero(page) THEN ToUsize(1) ELSE page,
              IF IsZero(page_size) THEN ToUsize(64) ELSE page_size)

(***************************************************************************)
(* api/http/request/access.rs: the extractor of a Claim from the request   *)
(* header X-Access-Claim.  header is the header's value, if any.  result   *)
(* is the Result returned (panic: the use of ENCRYPTER panicked instead),  *)
(* verified is what Claim::verify returned, if it was called and returned, *)
(* steps are the steps of the adapter entered, in order.                   *)
(***************************************************************************)
\* Variants of the match, against which the properties below are tested:
\* one without the expiry check, one that hands verify's error text on, and
\* one that turns down the claims of accounts changed since.
Verified_NoExpiry(v) ==
    IF v.panic
    THEN [panic |-> TRUE, result |-> v.result, verified |-> None,
          steps |-> <<"NoHeader">> \o v.steps, cell |-> v.cell]
    ELSE IF v.result.ok
    THEN [panic |-> FALSE, result |-> Ok(v.result.value), verified |-> Some(v.result),
          steps |-> <<"NoHeader">> \o v.steps \o <<"CheckingExpiry">>, cell |-> v.cell]
    ELSE [panic |-> FALSE, result |-> Err(Response_bad_request("invalid claim")),
          verified |-> Some(v.result),
          steps |-> <<"NoHeader">> \o v.steps, cell |-> v.cell]

Verified_Leaky(v) ==
    IF v.panic
    THEN [panic |-> TRUE, result |-> v.result, verified |-> None,
          steps |-> <<"NoHeader">> \o v.steps, cell |-> v.cell]
    ELSE IF v.result.ok
    THEN [panic |-> FALSE,
          result |-> IF ~Claim_is_expire(v.result.value)
                     THEN Ok(v.result.value)
                     ELSE Err(Response_bad_request("expired claim")),
          verified |-> Some(v.result),
          steps |-> <<"NoHeader">> \o v.steps \o <<"CheckingExpiry">>,
          cell |-> v.cell]
    ELSE [panic |-> FALSE, result |-> Err(Response_bad_request(v.result.error)),
          verified |-> Some(v.result),
          steps |-> <<"NoHeader">> \o v.steps, cell |-> v.cell]

Verified_Revoking(v) ==
    IF v.panic
    THEN [panic |-> TRUE, result |-> v.result, verified |-> None,
          steps |-> <<"NoHeader">> \o v.steps, cell |-> v.cell]
    ELSE IF v.result.ok
    THEN [panic |-> FALSE,
          result |-> IF Claim_is_expire(v.result.value)
                     THEN Err(Response_bad_request("expired claim"))
                     ELSE IF \E r \in issued : r.claim = v.result.value
                                                /\ r.token \in changed_since
                     THEN Err(Response_bad_request("invalid claim"))
                     ELSE Ok(v.result.value),
          verified |-> Some(v.result),
          steps |-> <<"NoHeader">> \o v.steps \o <<"CheckingExpiry">>,
          cell |-> v.cell]
    ELSE [panic |-> FALSE, result |-> Err(Response_bad_request("invalid claim")),
          verified |-> Some(v.result),
          steps |-> <<"NoHeader">> \o v.steps, cell |-> v.cell]

\* The match on the outcome v of Claim::verify.
Verified(v) ==
    IF v.panic
    THEN [panic |-> TRUE, result |-> v.result, verified |-> None,
          steps |-> <<"NoHeader">> \o v.steps, cell |-> v.cell]
    ELSE IF v.result.ok
    THEN [panic |-> FALSE,
          result |-> IF ~Claim_is_expire(v.result.value)
                     THEN Ok(v.result.value)
                     ELSE Err(Response_bad_request("expired claim")),
          verified |-> Some(v.result),
          steps |-> <<"NoHeader">> \o v.steps \o <<"CheckingExpiry">>,
          cell |-> v.cell]
    ELSE [panic |-> FALSE, result |-> Err(Response_bad_request("invalid claim")),
          verified |-> Some(v.result),
          steps |-> <<"NoHeader">> \o v.steps, cell |-> v.cell]

\* A variant that takes an absent header for an empty one.
from_request_parts_EmptyHeader(header) ==
    Verified(Claim_verify(IF header.some THEN header.value ELSE <<>>))

from_request_parts(header) ==
    IF ~header.some
    THEN [panic |-> FALSE, result |-> Err(Response_bad_request("not provide claim")),
          verified |-> None, steps |-> <<"NoHeader">>, cell |-> ENCRYPTER]
    ELSE Verified(Claim_verify(header.value))

(***************************************************************************)
(* model/person.rs: table person, nickname UNIQUE, id AUTOINCREMENT.  The  *)
(* columns created_at and updated_at are not modelled.                     *)
(***************************************************************************)
Person_select_one_by_id(id) ==
    IF \E r \in person : r.id = id
    THEN Some(CHOOSE r \in person : r.id = id)
    ELSE None

Person_select_one_by_nickname(nickname) ==
    IF \E r \in person : r.nickname = nickname
    THEN Some(CHOOSE r \in person : r.nickname = nickname)
    ELSE None

Person_select_one_by_nickname_password(nickname, password) ==
    IF \E r \in person : r.nickname = nickname /\ r.password = password
    THEN Some(CHOOSE r \in person : r.nickname = nickname /\ r.password = password)
    ELSE None

\* INSERT ... RETURNING: the new row and the table after it.
Person_insert_one(nickname, password) ==
    IF \E r \in person : r.nickname = nickname
    THEN Err("UNIQUE constraint failed: person.nickname")
    ELSE LET row == [id |-> person_seq + 1, nickname |-> nickname, password |-> password]
         IN  Ok([row |-> row, table |-> person \cup {row}])

\* UPDATE person SET nickname, password WHERE id: the table after it.
Person_update_one_by_id(id, item) ==
    IF \E r \in person : r.id # id /\ r.nickname = item.nickname
                         /\ (\E q \in person : q.id = id)
    THEN Err("UNIQUE constraint failed: person.nickname")
    ELSE Ok({IF r.id = id
             THEN [r EXCEPT !.nickname = item.nickname, !.password = item.password]
             ELSE r : r \in person})

(***************************************************************************)
(* api/person/mod.rs: validate_value.                                      *)
(***************************************************************************)
IsWhite(c) == c \in {9, 10, 11, 12, 13, 32}

\* value.trim().is_empty()
IsBlank(value) == \A i \in 1..Len(value) : IsWhite(value[i])

NICKNAME_MAX == 20
PASSWORD_MAX == 1024

\* digest_to_hex(sha256_digest(value)): the digest of a value is a value of
\* its own, equal for equal input and never the input.
Sha256Hex(value) == [sha256 |-> value]

validate_nickname(value) ==
    IF IsBlank(value) THEN Err(Response_bad_request("nickname cannot be empty"))
    ELSE IF Len(value) > NICKNAME_MAX THEN Err(Response_bad_request("nickname is too long"))
    ELSE Ok(value)

validate_password(value) ==
    IF IsBlank(value) THEN Err(Response_bad_request("password cannot be empty"))
    ELSE IF Len(value) > PASSWORD_MAX
    THEN Err(Response_bad_request("password is too long (maximum 1024 characters)"))
    ELSE Ok(Sha256Hex(value))

(***************************************************************************)
(* The handlers.  Each is the whole handler as a function of the state:    *)
(* its response (None: the handler panicked and the connection was dropped *)
(* unanswered), the tables and ENCRYPTER after it, the claim it issued,    *)
(* the row it updated, and the number of database calls it made            *)
(* (connection() and each statement).                                      *)
(***************************************************************************)
Answer(response, db) ==
    [response |-> Some(response), person |-> person, person_seq |-> person_seq,
     cell |-> ENCRYPTER, claim |-> None, updated |-> None, db |-> db,
     object |-> finance_object, trade |-> finance_trade,
     transaction |-> finance_trade_transaction, sequence |-> sqlite_sequence]

\* api/ping.rs get::handler
ping_get_handler == Answer(Response_ok([timestamp |-> timestamp]), 0)

\* api/person/mod.rs post::handler from claim.issue() on: stored is the
\* handler's effect so far.
person_post_issued(stored, claim, token) ==
    IF ~token.ok
    THEN [stored EXCEPT !.response = Some(Response_bad_request(token.error))]
    ELSE [stored EXCEPT
            !.response = Some(Response_ok([claim |-> token.value])),
            !.claim = Some([token |-> token.value, claim |-> claim])]

\* api/person/mod.rs post::handler: registration.
person_post_handler(payload) ==
    LET nickname == validate_nickname(payload.nickname)
        password == validate_password(payload.password)
    IN  IF ~nickname.ok THEN Answer(nickname.error, 0)
        ELSE IF ~password.ok THEN Answer(password.error, 0)
        ELSE IF Person_select_one_by_nickname(nickname.value).some
        THEN Answer(Response_bad_request("nickname already exists"), 2)
        ELSE LET inserted == Person_insert_one(nickname.value, password.value)
             IN  IF ~inserted.ok THEN Answer(Response_bad_request(inserted.error), 3)
                 ELSE LET row == inserted.value.row
                          claim == Claim_new(row.id)
                          cell == LazyForce(ENCRYPTER)
                          stored == [Answer(Response_new, 3) EXCEPT
                                        !.person = inserted.value.table,
                                        !.person_seq = row.id,
                                        !.cell = cell]
                      IN  IF cell.state = "poisoned"
                          THEN [stored EXCEPT !.response = None]
                          ELSE person_post_issued(stored, claim,
                                                  Claim_issue(claim, cell.value))

\* api/person/claim.rs post::handler from claim.issue() on.
person_claim_post_issued(cell, claim, expire, token) ==
    IF ~token.ok
    THEN [Answer(Response_bad_request(token.error), 2) EXCEPT !.cell = cell]
    ELSE [Answer(Response_ok([claim |-> token.value, expire |-> expire]), 2)
            EXCEPT !.cell = cell,
                   !.claim = Some([token |-> token.value, claim |-> claim])]

\* api/person/claim.rs post::handler: login.
person_claim_post_handler(payload) ==
    LET nickname == validate_nickname(payload.nickname)
        password == validate_password(payload.password)
    IN  IF ~nickname.ok THEN Answer(nickname.error, 0)
        ELSE IF ~password.ok THEN Answer(password.error, 0)
        ELSE LET found == Person_select_one_by_nickname_password(nickname.value,
                                                                 password.value)
             IN  IF ~found.some
                 THEN Answer(Response_bad_request("incorrect nickname or password"), 2)
                 ELSE LET claim == Claim_new(found.value.id)
                          expire == Claim_expire(claim)
                          cell == LazyForce(ENCRYPTER)
                      IN  IF cell.state = "poisoned"
                          THEN [Answer(Response_new, 2) EXCEPT
                                   !.response = None, !.cell = cell]
                          ELSE person_claim_post_issued(cell, claim, expire,
                                                        Claim_issue(claim, cell.value))

\* api/person/mod.rs get::handler: GET /person/:id, public.
person_get_handler(id) ==
    LET found == Person_select_one_by_id(id)
    IN  IF found.some
        THEN Answer(Response_ok([id |-> found.value.id,
                                 nickname |-> found.value.nickname]), 2)
        ELSE Answer(Response_bad_request("person does not exist"), 2)

\* api/person/mod.rs get_single::handler: GET /person, protected.
person_get_single_handler(claim) ==
    LET found == Person_select_one_by_id(Claim_subject(claim))
    IN  IF found.some
        THEN Answer(Response_ok([id |-> found.value.id,
                                 nickname |-> found.value.nickname]), 2)
        ELSE Answer(Response_bad_request("person does not exist"), 2)

\* api/person/mod.rs put::handler: PUT /person, protected.
person_put_handler(claim, payload) ==
    LET found == Person_select_one_by_id(Claim_subject(claim))
        nickname == IF payload.nickname.some
                    THEN validate_nickname(payload.nickname.value)
                    ELSE Ok(<<>>)
        password == IF payload.password.some
                    THEN validate_password(payload.password.value)
                    ELSE Ok(<<>>)
    IN  IF ~found.some THEN Answer(Response_bad_request("person does not exist"), 2)
        ELSE IF ~nickname.ok THEN Answer(nickname.error, 2)
        ELSE IF ~password.ok THEN Answer(password.error, 2)
        ELSE LET row == found.value
                 newNick == payload.nickname.some /\ row.nickname # nickname.value
                 newPass == payload.password.some /\ row.password # password.value
                 item == [row EXCEPT
                            !.nickname = IF newNick THEN nickname.value ELSE @,
                            !.password = IF newPass THEN password.value ELSE @]
                 result == [nickname |-> IF newNick THEN Some(nickname.value) ELSE None]
             IN  IF ~(newNick \/ newPass) THEN Answer(Response_ok(result), 2)
                 ELSE LET updated == Person_update_one_by_id(row.id, item)
                      IN  IF ~updated.ok
                          THEN Answer(Response_bad_request(updated.error), 3)
                          ELSE [Answer(Response_ok(result), 3) EXCEPT
                                   !.person = updated.value,
                                   !.updated = Some(row.id)]

(***************************************************************************)
(* model/finance: the tables finance_object, finance_trade and             *)
(* finance_trade_transaction.  Their ids are AUTOINCREMENT, counted in     *)
(* sqlite_sequence and never given twice.  The foreign keys are enforced,  *)
(* as the unit test test_foreign_key_constraint requires: a row cannot     *)
(* name a parent that does not exist, and ON DELETE CASCADE deletes the    *)
(* rows that name a deleted one.  The columns created_at and updated_at    *)
(* are not modelled.  Each writing function returns the tables after it.   *)
(***************************************************************************)
ForeignKeyFailed == Err("FOREIGN KEY constraint failed")

\* The tables, as a writing function that changed none of them returns them.
Tables ==
    [object |-> finance_object, trade |-> finance_trade,
     transaction |-> finance_trade_transaction, sequence |-> sqlite_sequence]

RECURSIVE ById(_)
\* The rows of a set in the order of their ids, as a SELECT without ORDER BY
\* walks the table.
ById(rows) ==
    IF rows = {} THEN <<>>
    ELSE LET first == CHOOSE r \in rows : \A q \in rows : r.id <= q.id
         IN  <<first>> \o ById(rows \ {first})

\* Whether a usize is below 2^24, and its value then.
Fits(a) == \A i \in 4..USIZE_BYTES : a[i] = 0
Value(a) == a[1] + 256 * a[2] + 65536 * a[3]

\* LIMIT ?2 OFFSET ?3 of rows: rusqlite binds a usize as an i64 and fails
\* for one above i64::MAX; no table has 2^24 rows.
Window(rows, limit, offset) ==
    IF limit[USIZE_BYTES] >= 128 \/ offset[USIZE_BYTES] >= 128
    THEN Err("ToSqlConversionFailure")
    ELSE IF ~Fits(offset) \/ Value(offset) >= Len(rows) THEN Ok(<<>>)
    ELSE IF ~Fits(limit) \/ Value(offset) + Value(limit) >= Len(rows)
    THEN Ok(SubSeq(rows, Value(offset) + 1, Len(rows)))
    ELSE Ok(SubSeq(rows, Value(offset) + 1, Value(offset) + Value(limit)))

\* model/finance/object.rs
\* A variant of insert on a table without FOREIGN KEY(owner).
Object_insert_NoForeignKey(owner, symbol, alias, remark) ==
    LET id == sqlite_sequence.finance_object + 1
        row == [id |-> id, owner |-> owner, symbol |-> symbol,
                alias |-> alias, remark |-> remark]
    IN  Ok([id |-> id,
            tables |-> [Tables EXCEPT !.object = @ \cup {row},
                                      !.sequence.finance_object = id]])

Object_insert(owner, symbol, alias, remark) ==
    IF \A p \in person : p.id # owner THEN ForeignKeyFailed
    ELSE LET id == sqlite_sequence.finance_object + 1
             row == [id |-> id, owner |-> owner, symbol |-> symbol,
                     alias |-> alias, remark |-> remark]
         IN  Ok([id |-> id,
                 tables |-> [Tables EXCEPT !.object = @ \cup {row},
                                           !.sequence.finance_object = id]])

Object_count_by_owner(owner) ==
    Ok(Cardinality({r \in finance_object : r.owner = owner}))

Object_select_by_id_owner(id, owner) ==
    IF \E r \in finance_object : r.id = id /\ r.owner = owner
    THEN Ok(Some(CHOOSE r \in finance_object : r.id = id /\ r.owner = owner))
    ELSE Ok(None)

Object_select_by_owner(owner, limit, offset) ==
    Window(ById({r \in finance_object : r.owner = owner}), limit, offset)

Object_update_by_id_owner(id, owner, symbol, alias, remark) ==
    Ok([Tables EXCEPT !.object =
          {IF r.id = id /\ r.owner = owner
           THEN [r EXCEPT !.symbol = symbol, !.alias = alias, !.remark = remark]
           ELSE r : r \in finance_object}])

\* The trades that name an object among ids, and the transactions of trades
\* among ids: what ON DELETE CASCADE deletes with them.
TradesOf(ids) ==
    {t \in finance_trade : t.base_object_id \in ids \/ t.quote_object_id \in ids}

TransactionsOf(ids) == {x \in finance_trade_transaction : x.trade_id \in ids}

\* The tables without the rows deleted of finance_object and, with them, of
\* finance_trade and finance_trade_transaction.
Cascaded(objects, trades) ==
    [Tables EXCEPT !.object = @ \ objects,
                   !.trade = @ \ trades,
                   !.transaction = @ \ TransactionsOf({t.id : t \in trades})]

\* A variant whose DELETE has no AND owner = ?2.
Object_delete_by_id_owner_AnyOwner(id, owner) ==
    Ok(Cascaded({r \in finance_object : r.id = id},
                TradesOf({r.id : r \in {q \in finance_object : q.id = id}})))

Object_delete_by_id_owner(id, owner) ==
    Ok(Cascaded({r \in finance_object : r.id = id /\ r.owner = owner},
                TradesOf({r.id : r \in {q \in finance_object :
                                           q.id = id /\ q.owner = owner}})))

\* model/finance/trade/mod.rs
Trade_insert(owner, base_object_id, quote_object_id, alias, remark) ==
    IF \/ \A p \in person : p.id # owner
       \/ \A o \in finance_object : o.id # base_object_id
       \/ \A o \in finance_object : o.id # quote_object_id
    THEN ForeignKeyFailed
    ELSE LET id == sqlite_sequence.finance_trade + 1
             row == [id |-> id, owner |-> owner, base_object_id |-> base_object_id,
                     quote_object_id |-> quote_object_id,
                     alias |-> alias, remark |-> remark]
         IN  Ok([id |-> id,
                 tables |-> [Tables EXCEPT !.trade = @ \cup {row},
                                           !.sequence.finance_trade = id]])

Trade_count_by_owner(owner) ==
    Ok(Cardinality({r \in finance_trade : r.owner = owner}))

Trade_select_by_id_owner(id, owner) ==
    IF \E r \in finance_trade : r.id = id /\ r.owner = owner
    THEN Ok(Some(CHOOSE r \in finance_trade : r.id = id /\ r.owner = owner))
    ELSE Ok(None)

Trade_select_by_owner(owner, limit, offset) ==
    Window(ById({r \in finance_trade : r.owner = owner}), limit, offset)

Trade_update_by_id_owner(id, owner, base_object_id, quote_object_id, alias, remark) ==
    IF /\ \E r \in finance_trade : r.id = id /\ r.owner = owner
       /\ \/ \A o \in finance_object : o.id # base_object_id
          \/ \A o \in finance_object : o.id # quote_object_id
    THEN ForeignKeyFailed
    ELSE Ok([Tables EXCEPT !.trade =
               {IF r.id = id /\ r.owner = owner
                THEN [r EXCEPT !.base_object_id = base_object_id,
                               !.quote_object_id = quote_object_id,
                               !.alias = alias, !.remark = remark]
                ELSE r : r \in finance_trade}])

Trade_delete_by_id_owner(id, owner) ==
    Ok(Cascaded({}, {r \in finance_trade : r.id = id /\ r.owner = owner}))

\* model/finance/trade/transaction.rs
Transaction_insert(trade_id, quantity, is_base_to_quote, alias, remark, occurrence_at) ==
    IF \A t \in finance_trade : t.id # trade_id THEN ForeignKeyFailed
    ELSE LET id == sqlite_sequence.finance_trade_transaction + 1
             row == [id |-> id, trade_id |-> trade_id, quantity |-> quantity,
                     is_base_to_quote |-> is_base_to_quote,
                     alias |-> alias, remark |-> remark,
                     occurrence_at |-> IF occurrence_at.some THEN occurrence_at.value
                                       ELSE timestamp]
         IN  Ok([id |-> id,
                 tables |-> [Tables EXCEPT !.transaction = @ \cup {row},
                                           !.sequence.finance_trade_transaction = id]])

Transaction_count_by_trade_id(trade_id) ==
    Ok(Cardinality({r \in finance_trade_transaction : r.trade_id = trade_id}))

Transaction_select_by_id_trade_id(id, trade_id) ==
    IF \E r \in finance_trade_transaction : r.id = id /\ r.trade_id = trade_id
    THEN Ok(Some(CHOOSE r \in finance_trade_transaction :
                    r.id = id /\ r.trade_id = trade_id))
    ELSE Ok(None)

Transaction_select_by_trade_id(trade_id, limit, offset) ==
    Window(ById({r \in finance_trade_transaction : r.trade_id = trade_id}),
           limit, offset)

Transaction_update_by_id_trade_id(id, trade_id, quantity, is_base_to_quote, occurrence_at, alias, remark) ==
    Ok([Tables EXCEPT !.transaction =
          {IF r.id = id /\ r.trade_id = trade_id
           THEN [r EXCEPT !.quantity = quantity,
                          !.is_base_to_quote = is_base_to_quote,
                          !.alias = alias, !.remark = remark,
                          !.occurrence_at = occurrence_at]
           ELSE r : r \in finance_trade_transaction}])

Transaction_delete_by_id_trade_id(id, trade_id) ==
    Ok([Tables EXCEPT !.transaction =
          {r \in finance_trade_transaction : ~(r.id = id /\ r.trade_id = trade_id)}])

(***************************************************************************)
(* api/finance: the handlers of objects, trades and transactions.  Every   *)
(* one takes the Claim and works for claim.subject().  A GET handler is    *)
(* given paged, what its call of paginate made.                            *)
(***************************************************************************)
\* validator's length(min, max) on an Option<String> or a String.
LengthWithin(value, min, max) ==
    value.some => Len(value.value) >= min /\ Len(value.value) <= max

\* validator's range(min = 1) on an Option<i64>.
IdWithin(value) == value.some => value.value >= 1

\* Params::validate: page is range(min = 1), page_size range(min = 1, max = 1024).
Params_validate(params) ==
    /\ params.page.some => ~IsZero(params.page.value)
    /\ params.page_size.some =>
          /\ Fits(params.page_size.value)
          /\ Value(params.page_size.value) >= 1
          /\ Value(params.page_size.value) <= 1024

\* The response made of ValidationErrors.
Invalid == Response_bad_request("ValidationErrors")

\* format!("{kind} {id} does not exist")
DoesNotExist(kind, id) ==
    Response_not_found(kind \o " " \o ToString(id) \o " does not exist")

\* paginate(params.page.unwrap_or(1), params.page_size.unwrap_or(256))
Paged(params) ==
    paginate(IF params.page.some THEN params.page.value ELSE ToUsize(1),
             IF params.page_size.some THEN params.page_size.value ELSE ToUsize(256))

\* The handler panicked after db database calls.
Unanswered(db) == [Answer(Response_new, db) EXCEPT !.response = None]

\* The handler answered with data after db calls that left tables.
Written(data, db, tables) ==
    [Answer(Response_ok(data), db) EXCEPT
        !.object = tables.object, !.trade = tables.trade,
        !.transaction = tables.transaction, !.sequence = tables.sequence]

\* api/finance/object.rs get::handler
finance_object_get_handler(claim, params, paged) ==
    LET owner == Claim_subject(claim)
        total == Object_count_by_owner(owner)
    IN  IF ~Params_validate(params) THEN Answer(Invalid, 0)
        ELSE IF params.id.some
        THEN LET object == Object_select_by_id_owner(params.id.value, owner)
             IN  IF ~object.value.some
                 THEN Answer(DoesNotExist("object", params.id.value), 3)
                 ELSE Answer(Response_ok([objects |-> <<object.value.value>>,
                                          total |-> total.value]), 3)
        ELSE IF paged.panic THEN Unanswered(2)
        ELSE LET objects == Object_select_by_owner(owner, paged.limit, paged.offset)
             IN  IF ~objects.ok THEN Answer(Response_bad_request(objects.error), 3)
                 ELSE Answer(Response_ok([objects |-> objects.value,
                                          total |-> total.value]), 3)

\* api/finance/object.rs post::handler
finance_object_post_handler(claim, payload) ==
    LET owner == Claim_subject(claim)
        id == Object_insert(owner, payload.symbol, payload.alias, payload.remark)
    IN  IF ~(/\ LengthWithin(Some(payload.symbol), 1, 1024)
             /\ LengthWithin(payload.alias, 1, 4096)
             /\ LengthWithin(payload.remark, 1, 4096))
        THEN Answer(Invalid, 0)
        ELSE IF ~id.ok THEN Answer(Response_bad_request(id.error), 2)
        ELSE Written([id |-> id.value.id], 2, id.value.tables)

\* A variant of put::handler that writes the body's alias and remark as
\* they are, without .or(object.alias) and .or(object.remark).
finance_object_put_handler_Replace(claim, id, payload) ==
    LET owner == Claim_subject(claim)
        object == Object_select_by_id_owner(id, owner)
    IN  IF ~(/\ LengthWithin(payload.symbol, 2, 1024)
             /\ LengthWithin(payload.alias, 2, 4096)
             /\ LengthWithin(payload.remark, 2, 4096))
        THEN Answer(Invalid, 0)
        ELSE IF ~object.value.some THEN Answer(DoesNotExist("object", id), 2)
        ELSE LET row == object.value.value
                 updated == Object_update_by_id_owner(
                                id, owner,
                                IF payload.symbol.some THEN payload.symbol.value
                                ELSE row.symbol,
                                payload.alias, payload.remark)
             IN  Written([id |-> id], 3, updated.value)

\* api/finance/object.rs put::handler
finance_object_put_handler(claim, id, payload) ==
    LET owner == Claim_subject(claim)
        object == Object_select_by_id_owner(id, owner)
    IN  IF ~(/\ LengthWithin(payload.symbol, 2, 1024)
             /\ LengthWithin(payload.alias, 2, 4096)
             /\ LengthWithin(payload.remark, 2, 4096))
        THEN Answer(Invalid, 0)
        ELSE IF ~object.value.some THEN Answer(DoesNotExist("object", id), 2)
        ELSE LET row == object.value.value
                 updated == Object_update_by_id_owner(
                                id, owner,
                                IF payload.symbol.some THEN payload.symbol.value
                                ELSE row.symbol,
                                IF payload.alias.some THEN payload.alias ELSE row.alias,
                                IF payload.remark.some THEN payload.remark ELSE row.remark)
             IN  Written([id |-> id], 3, updated.value)

\* api/finance/object.rs delete::handler
finance_object_delete_handler(claim, id) ==
    LET owner == Claim_subject(claim)
        object == Object_select_by_id_owner(id, owner)
    IN  IF ~object.value.some THEN Answer(DoesNotExist("object", id), 2)
        ELSE Written(object.value.value, 3, Object_delete_by_id_owner(id, owner).value)

\* api/finance/trade/mod.rs get::handler
finance_trade_get_handler(claim, params, paged) ==
    LET owner == Claim_subject(claim)
        total == Trade_count_by_owner(owner)
    IN  IF ~Params_validate(params) THEN Answer(Invalid, 0)
        ELSE IF params.id.some
        THEN LET trade == Trade_select_by_id_owner(params.id.value, owner)
             IN  IF ~trade.value.some
                 THEN Answer(DoesNotExist("trade", params.id.value), 3)
                 ELSE Answer(Response_ok([trades |-> <<trade.value.value>>,
                                          total |-> total.value]), 3)
        ELSE IF paged.panic THEN Unanswered(2)
        ELSE LET trades == Trade_select_by_owner(owner, paged.limit, paged.offset)
             IN  IF ~trades.ok THEN Answer(Response_bad_request(trades.error), 3)
                 ELSE Answer(Response_ok([trades |-> trades.value,
                                          total |-> total.value]), 3)

\* A variant of post::handler that looks the objects up by id alone.
finance_trade_post_handler_AnyOwner(claim, payload) ==
    LET owner == Claim_subject(claim)
        id == Trade_insert(owner, payload.base_object_id, payload.quote_object_id,
                           payload.alias, payload.remark)
    IN  IF ~(/\ payload.base_object_id >= 1
             /\ payload.quote_object_id >= 1
             /\ LengthWithin(payload.alias, 1, 4096)
             /\ LengthWithin(payload.remark, 1, 4096))
        THEN Answer(Invalid, 0)
        ELSE IF \A o \in finance_object : o.id # payload.base_object_id
        THEN Answer(DoesNotExist("object", payload.base_object_id), 2)
        ELSE IF \A o \in finance_object : o.id # payload.quote_object_id
        THEN Answer(DoesNotExist("object", payload.quote_object_id), 3)
        ELSE IF ~id.ok THEN Answer(Response_bad_request(id.error), 4)
        ELSE Written([id |-> id.value.id], 4, id.value.tables)

\* api/finance/trade/mod.rs post::handler
finance_trade_post_handler(claim, payload) ==
    LET owner == Claim_subject(claim)
        base_object == Object_select_by_id_owner(payload.base_object_id, owner)
        quote_object == Object_select_by_id_owner(payload.quote_object_id, owner)
    IN  IF ~(/\ payload.base_object_id >= 1
             /\ payload.quote_object_id >= 1
             /\ LengthWithin(payload.alias, 1, 4096)
             /\ LengthWithin(payload.remark, 1, 4096))
        THEN Answer(Invalid, 0)
        ELSE IF ~base_object.value.some
        THEN Answer(DoesNotExist("object", payload.base_object_id), 2)
        ELSE IF ~quote_object.value.some
        THEN Answer(DoesNotExist("object", payload.quote_object_id), 3)
        ELSE LET id == Trade_insert(owner, base_object.value.value.id,
                                    quote_object.value.value.id,
                                    payload.alias, payload.remark)
             IN  IF ~id.ok THEN Answer(Response_bad_request(id.error), 4)
                 ELSE Written([id |-> id.value.id], 4, id.value.tables)

\* api/finance/trade/mod.rs put::handler
finance_trade_put_handler(claim, id, payload) ==
    LET owner == Claim_subject(claim)
        trade == Trade_select_by_id_owner(id, owner)
    IN  IF ~(/\ IdWithin(payload.base_object_id)
             /\ IdWithin(payload.quote_object_id)
             /\ LengthWithin(payload.alias, 1, 4096)
             /\ LengthWithin(payload.remark, 1, 4096))
        THEN Answer(Invalid, 0)
        ELSE IF ~trade.value.some THEN Answer(DoesNotExist("trade", id), 2)
        ELSE LET row == trade.value.value
                 updated == Trade_update_by_id_owner(
                                id, owner,
                                IF payload.base_object_id.some
                                THEN payload.base_object_id.value
                                ELSE row.base_object_id,
                                IF payload.quote_object_id.some
                                THEN payload.quote_object_id.value
                                ELSE row.quote_object_id,
                                IF payload.alias.some THEN payload.alias ELSE row.alias,
                                IF payload.remark.some THEN payload.remark ELSE row.remark)
             IN  IF ~updated.ok THEN Answer(Response_bad_request(updated.error), 3)
                 ELSE Written([id |-> id], 3, updated.value)

\* api/finance/trade/mod.rs delete::handler
finance_trade_delete_handler(claim, id) ==
    LET owner == Claim_subject(claim)
        trade == Trade_select_by_id_owner(id, owner)
    IN  IF ~trade.value.some THEN Answer(DoesNotExist("trade", id), 2)
        ELSE Written(trade.value.value, 3, Trade_delete_by_id_owner(id, owner).value)

\* api/finance/trade/transaction.rs get::handler
finance_transaction_get_handler(claim, trade_id, params, paged) ==
    LET owner == Claim_subject(claim)
        trade == Trade_select_by_id_owner(trade_id, owner)
        total == Transaction_count_by_trade_id(trade_id)
    IN  IF ~Params_validate(params) THEN Answer(Invalid, 0)
        ELSE IF ~trade.value.some THEN Answer(DoesNotExist("trade", trade_id), 2)
        ELSE IF params.id.some
        THEN LET transaction == Transaction_select_by_id_trade_id(params.id.value,
                                                                   trade_id)
             IN  IF ~transaction.value.some
                 THEN Answer(DoesNotExist("transaction", params.id.value), 4)
                 ELSE Answer(Response_ok([transactions |-> <<transaction.value.value>>,
                                          total |-> total.value]), 4)
        ELSE IF paged.panic THEN Unanswered(3)
        ELSE LET transactions == Transaction_select_by_trade_id(trade_id, paged.limit,
                                                                paged.offset)
             IN  IF ~transactions.ok
                 THEN Answer(Response_bad_request(transactions.error), 4)
                 ELSE Answer(Response_ok([transactions |-> transactions.value,
                                          total |-> total.value]), 4)

\* api/finance/trade/transaction.rs post::handler
finance_transaction_post_handler(claim, trade_id, payload) ==
    LET owner == Claim_subject(claim)
        trade == Trade_select_by_id_owner(trade_id, owner)
    IN  IF ~(/\ LengthWithin(payload.alias, 1, 4096)
             /\ LengthWithin(payload.remark, 1, 4096))
        THEN Answer(Invalid, 0)
        ELSE IF ~trade.value.some THEN Answer(DoesNotExist("trade", trade_id), 2)
        ELSE LET id == Transaction_insert(trade.value.value.id, payload.quantity,
                                          payload.is_base_to_quote, payload.alias,
                                          payload.remark, payload.occurrence_at)
             IN  IF ~id.ok THEN Answer(Response_bad_request(id.error), 3)
                 ELSE Written([id |-> id.value.id], 3, id.value.tables)

\* api/finance/trade/transaction.rs put::handler
finance_transaction_put_handler(claim, trade_id, id, payload) ==
    LET owner == Claim_subject(claim)
        trade == Trade_select_by_id_owner(trade_id, owner)
        transaction == Transaction_select_by_id_trade_id(id, trade_id)
    IN  IF ~(/\ LengthWithin(payload.alias, 1, 4096)
             /\ LengthWithin(payload.remark, 1, 4096))
        THEN Answer(Invalid, 0)
        ELSE IF ~trade.value.some THEN Answer(DoesNotExist("trade", trade_id), 2)
        ELSE IF ~transaction.value.some
        THEN Answer(DoesNotExist("transaction", id), 3)
        ELSE LET row == transaction.value.value
                 updated == Transaction_update_by_id_trade_id(
                                id, trade.value.value.id,
                                IF payload.quantity.some THEN payload.quantity.value
                                ELSE row.quantity,
                                IF payload.is_base_to_quote.some
                                THEN payload.is_base_to_quote.value
                                ELSE row.is_base_to_quote,
                                IF payload.occurrence_at.some
                                THEN payload.occurrence_at.value
                                ELSE row.occurrence_at,
                                IF payload.alias.some THEN payload.alias ELSE row.alias,
                                IF payload.remark.some THEN payload.remark ELSE row.remark)
             IN  Written([id |-> id], 4, updated.value)

\* api/finance/trade/transaction.rs delete::handler
finance_transaction_delete_handler(claim, trade_id, id) ==
    LET owner == Claim_subject(claim)
        trade == Trade_select_by_id_owner(trade_id, owner)
        transaction == Transaction_select_by_id_trade_id(id, trade_id)
    IN  IF ~trade.value.some THEN Answer(DoesNotExist("trade", trade_id), 2)
        ELSE IF ~transaction.value.some
        THEN Answer(DoesNotExist("transaction", id), 3)
        ELSE Written(transaction.value.value, 4,
                     Transaction_delete_by_id_trade_id(id, trade.value.value.id).value)

(***************************************************************************)
(* The inputs.                                                             *)
(***************************************************************************)
\* The key and the nonce of the engine's unit test, as SECRET_KEY and
\* SECRET_NONCE hold them: "1234...9012".
SECRET_KEY == [i \in 1..KEY_LEN |-> 48 + (i % 10)]
SECRET_NONCE == [i \in 1..NONCE_LEN |-> 48 + (i % 10)]

\* The environments a deployment may start in: key and nonce valid, the key
\* unset, the nonce of 13 bytes.
EnvChoices ==
    { [SECRET_KEY |-> Some(SECRET_KEY), SECRET_NONCE |-> Some(SECRET_NONCE)],
      [SECRET_KEY |-> None, SECRET_NONCE |-> Some(SECRET_NONCE)],
      [SECRET_KEY |-> Some(SECRET_KEY), SECRET_NONCE |-> Some(SECRET_NONCE \o <<48>>)] }

\* Whether the environment holds a 32 byte key and a 12 byte nonce.
KeyMaterialValid ==
    /\ env.SECRET_KEY.some /\ Len(env.SECRET_KEY.value) = KEY_LEN
    /\ env.SECRET_NONCE.some /\ Len(env.SECRET_NONCE.value) = NONCE_LEN

\* Nicknames "a" and "b" and a blank one.
Nicknames == { <<97>>, <<98>>, <<32>> }
\* The password "p" and the empty one.
Passwords == { <<112>>, <<>> }
PersonIds == 1..3

\* The engine somebody who knows the key seals with.
SealEngine == [key |-> SECRET_KEY, nonce |-> SECRET_NONCE]
Sealed(plaintext) == base64_encode(encrypt(SealEngine, plaintext).value)

\* Header values no issuance produced: "!!!!" (not base64), twenty zero
\* bytes (no valid tag), a sealed object without iat and exp, and sealed
\* claims of a foreign source: one that expired at 0, one that outlives the
\* model, the latter with its fields in another order.
ForgedHeaders ==
    { <<33, 33, 33, 33>>,
      base64_encode([i \in 1..20 |-> 0]),
      Sealed(<<123, 34>> \o KeySub \o <<34, 58, 49, 125>>),
      Sealed(to_vec([sub |-> 1, iat |-> 0, exp |-> 0])),
      Sealed(<<123, 34>> \o KeyExp \o <<34, 58>> \o Dec(WEEK_MS + 9)
               \o <<44, 34>> \o KeySub \o <<34, 58, 50>>
               \o <<44, 34>> \o KeyIat \o <<34, 58, 48, 125>>) }

\* The header of a request: absent, a token issued earlier, or a forged one.
HeaderInputs ==
    {None} \cup {Some(r.token) : r \in issued} \cup {Some(h) : h \in ForgedHeaders}

\* The bodies of PUT /person: each member absent or present, the nickname
\* "a", "b" or blank, the password "q".
PutBodies ==
    { [nickname |-> n, password |-> p] :
        n \in {None} \cup {Some(v) : v \in Nicknames},
        p \in {None, Some(<<113>>)} }

(***************************************************************************)
(* The actions.                                                            *)
(***************************************************************************)
\* The finance tables as model::initialize() creates them.
NoFinance ==
    /\ finance_object = {}
    /\ finance_trade = {}
    /\ finance_trade_transaction = {}
    /\ sqlite_sequence = [finance_object |-> 0, finance_trade |-> 0,
                          finance_trade_transaction |-> 0]

Idle ==
    [route |-> "idle", header |-> None, body |-> None, steps |-> <<>>,
     verified |-> None, outcome |-> "none", handler |-> FALSE, subject |-> None,
     db |-> 0, response |-> None]

Init ==
    /\ env \in EnvChoices
    /\ proc = "starting"
    /\ ENCRYPTER = Uninit
    /\ now = 0
    /\ person = {}
    /\ person_seq = 0
    /\ issued = {}
    /\ changed_since = {}
    /\ last = Idle
    /\ NoFinance
    /\ inflight = {}
    /\ probe = None

\* main.rs main: the router is built and the listener bound; neither reads
\* ENCRYPTER.
Main ==
    /\ proc = "starting"
    /\ proc' = "serving"
    /\ UNCHANGED <<env, ENCRYPTER, now, person, person_seq, issued, changed_since, last>>
    /\ UNCHANGED <<finance, inflight, probe>>

\* A millisecond passes.
Tick ==
    /\ last = Idle
    /\ now % WEEK_MS < MaxTick
    /\ now' = now + 1
    /\ UNCHANGED <<env, proc, ENCRYPTER, person, person_seq, issued, changed_since, last>>
    /\ UNCHANGED <<finance, inflight, probe>>

\* Seven days pass.
Jump ==
    /\ last = Idle
    /\ now < WEEK_MS
    /\ now' = now + WEEK_MS
    /\ UNCHANGED <<env, proc, ENCRYPTER, person, person_seq, issued, changed_since, last>>
    /\ UNCHANGED <<finance, inflight, probe>>

\* The answer is written to the connection, and the next request is read.
Reply ==
    /\ last # Idle
    /\ last' = Idle
    /\ UNCHANGED <<env, proc, ENCRYPTER, now, person, person_seq, issued, changed_since>>
    /\ UNCHANGED <<finance, inflight, probe>>

\* The state after a handler that returned e.
Apply(e) ==
    /\ person' = e.person
    /\ person_seq' = e.person_seq
    /\ finance_object' = e.object
    /\ finance_trade' = e.trade
    /\ finance_trade_transaction' = e.transaction
    /\ sqlite_sequence' = e.sequence
    /\ issued' = IF e.claim.some
                 THEN issued \cup {[token |-> e.claim.value.token,
                                    claim |-> e.claim.value.claim, at |-> now]}
                 ELSE issued
    /\ changed_since' = IF e.updated.some
                        THEN changed_since \cup
                               {r.token : r \in {q \in issued :
                                                   q.claim.sub = e.updated.value}}
                        ELSE changed_since

\* A request to a route that extracts no Claim.
Public(route, body, e) ==
    /\ proc = "serving"
    /\ last = Idle
    /\ Apply(e)
    /\ ENCRYPTER' = e.cell
    /\ last' = [Idle EXCEPT !.route = route, !.body = Some(body),
                            !.outcome = IF e.response.some THEN "public" ELSE "Panicked",
                            !.handler = TRUE, !.db = e.db, !.response = e.response]
    /\ UNCHANGED <<env, proc, now, inflight, probe>>

\* main.rs: the handler the router calls for a protected route.
Route(route, claim, body) ==
    IF route = "GET /person" THEN person_get_single_handler(claim)
    ELSE IF route = "PUT /person" THEN person_put_handler(claim, body)
    ELSE IF route = "GET /finance/objects"
    THEN finance_object_get_handler(claim, body.params, body.paged)
    ELSE IF route = "POST /finance/objects"
    THEN finance_object_post_handler(claim, body.payload)
    ELSE IF route = "PUT /finance/objects/:id"
    THEN finance_object_put_handler(claim, body.id, body.payload)
    ELSE IF route = "DELETE /finance/objects/:id"
    THEN finance_object_delete_handler(claim, body.id)
    ELSE IF route = "GET /finance/trades"
    THEN finance_trade_get_handler(claim, body.params, body.paged)
    ELSE IF route = "POST /finance/trades"
    THEN finance_trade_post_handler(claim, body.payload)
    ELSE IF route = "PUT /finance/trades/:id"
    THEN finance_trade_put_handler(claim, body.id, body.payload)
    ELSE IF route = "DELETE /finance/trades/:id"
    THEN finance_trade_delete_handler(claim, body.id)
    ELSE IF route = "GET /finance/trades/:trade_id/transactions"
    THEN finance_transaction_get_handler(claim, body.trade_id, body.params, body.paged)
    ELSE IF route = "POST /finance/trades/:trade_id/transactions"
    THEN finance_transaction_post_handler(claim, body.trade_id, body.payload)
    ELSE IF route = "PUT /finance/trades/:trade_id/transactions/:id"
    THEN finance_transaction_put_handler(claim, body.trade_id, body.id, body.payload)
    ELSE finance_transaction_delete_handler(claim, body.trade_id, body.id)

\* A protected request whose Claim was extracted: the handler runs.
Accepted(met, claim, body, e) ==
    /\ Apply(e)
    /\ last' = [met EXCEPT !.outcome = "Accepted", !.handler = TRUE,
                           !.body = Some(body),
                           !.subject = Some(Claim_subject(claim)),
                           !.db = e.db, !.response = e.response]

\* A protected request, a being what the extractor of the Claim returned.
Extracted(met, route, body, a) ==
    /\ ENCRYPTER' = a.cell
    /\ IF a.panic
       THEN /\ last' = [met EXCEPT !.steps = a.steps, !.outcome = "Panicked"]
            /\ UNCHANGED <<person, person_seq, issued, changed_since, finance>>
       ELSE IF ~a.result.ok
       THEN /\ last' = [met EXCEPT !.steps = a.steps, !.verified = a.verified,
                                   !.outcome = "Rejected",
                                   !.response = Some(a.result.error)]
            /\ UNCHANGED <<person, person_seq, issued, changed_since, finance>>
       ELSE Accepted([met EXCEPT !.steps = a.steps, !.verified = a.verified],
                     a.result.value, body,
                     Route(route, a.result.value, body))

\* A request to a route whose handler takes a Claim: axum runs the
\* extractors in the order of the parameters, the Claim first, and calls the
\* handler only if every one of them returned Ok.  The body is read after.
Protected(route, header, body) ==
    /\ proc = "serving"
    /\ last = Idle
    /\ Extracted([Idle EXCEPT !.route = route, !.header = header], route, body,
                 from_request_parts(header))
    /\ UNCHANGED <<env, proc, now, inflight, probe>>

PingGet == Public("GET /ping", <<>>, ping_get_handler)

PersonPost(n, p) ==
    /\ Cardinality(issued) < MaxIssued
    /\ LET payload == [nickname |-> n, password |-> p]
       IN  Public("POST /person", payload, person_post_handler(payload))

PersonClaimPost(n, p) ==
    /\ Cardinality(issued) < MaxIssued
    /\ LET payload == [nickname |-> n, password |-> p]
       IN  Public("POST /person/claim", payload, person_claim_post_handler(payload))

PersonGet(id) == Public("GET /person/:id", id, person_get_handler(id))

PersonGetSingle(header) == Protected("GET /person", header, <<>>)

PersonPut(header, payload) == Protected("PUT /person", header, payload)

Next ==
    \/ Main
    \/ Tick
    \/ Jump
    \/ Reply
    \/ PingGet
    \/ \E n \in Nicknames, p \in Passwords : PersonPost(n, p)
    \/ \E n \in Nicknames, p \in Passwords : PersonClaimPost(n, p)
    \/ \E id \in PersonIds : PersonGet(id)
    \/ \E h \in HeaderInputs : PersonGetSingle(h)
    \/ \E h \in HeaderInputs, b \in PutBodies : PersonPut(h, b)

Spec == Init /\ [][Next]_vars

(***************************************************************************)
(* The token functions on their own: Claim::new, issue and verify applied  *)
(* to subjects and clock readings the person table does not reach, and the *)
(* adapter applied to single-byte changes of an issued token.              *)
(***************************************************************************)
\* Subjects: negative, zero, of one and two digits, the greatest.
Subjects == {-42, 0, 1, 42, MaxInt}
\* Clock readings of one, four and ten digits; the last is the greatest
\* whose claims have an expiry within MaxInt.
ClockSamples == {0, 1700, MaxInt - WEEK_MS}
\* What is XORed onto the changed byte: its lowest bit, its highest, all.
Masks == {1, 128, 255}

\* data with byte i changed by mask.
FlipByte(data, i, mask) == [data EXCEPT ![i] = Xor8(@, mask)]

\* The token whose decoded ciphertext is that of token with byte i changed.
Tampered(token, i, mask) ==
    base64_encode(FlipByte(base64_decode(token).value, i, mask))

TokenInit ==
    /\ env = [SECRET_KEY |-> Some(SECRET_KEY), SECRET_NONCE |-> Some(SECRET_NONCE)]
    /\ proc = "serving"
    /\ ENCRYPTER = Uninit
    /\ now \in ClockSamples
    /\ person = {}
    /\ person_seq = 0
    /\ issued = {}
    /\ changed_since = {}
    /\ last = Idle
    /\ NoFinance
    /\ inflight = {}
    /\ probe = None

\* The claim and what Claim::issue returned for it are put on record.
Issued(claim, token) ==
    /\ token.ok
    /\ issued' = {[token |-> token.value, claim |-> claim, at |-> now]}

\* Claim::new(sub).issue()
TokenIssue(sub) ==
    /\ last = Idle
    /\ issued = {}
    /\ ENCRYPTER' = LazyForce(ENCRYPTER)
    /\ Issued(Claim_new(sub), Claim_issue(Claim_new(sub), LazyForce(ENCRYPTER).value))
    /\ UNCHANGED <<env, proc, now, person, person_seq, changed_since, last>>
    /\ UNCHANGED <<finance, inflight, probe>>

\* What Claim::verify returned for value is put on record.
Verify(value, v) ==
    /\ ~v.panic
    /\ ENCRYPTER' = v.cell
    /\ last' = [Idle EXCEPT !.route = "Claim::verify", !.header = Some(value),
                            !.steps = v.steps, !.verified = Some(v.result)]

\* Claim::verify(token) of an issued token.
TokenVerify(r) ==
    /\ last = Idle
    /\ Verify(r.token, Claim_verify(r.token))
    /\ UNCHANGED <<env, proc, now, person, person_seq, issued, changed_since>>
    /\ UNCHANGED <<finance, inflight, probe>>

\* A request to a protected route with a changed token.
TokenTamper(r, i, mask) == Protected("GET /person", Some(Tampered(r.token, i, mask)), <<>>)

TokenNext ==
    \/ Reply
    \/ \E sub \in Subjects : TokenIssue(sub)
    \/ \E r \in issued : TokenVerify(r)
    \/ \E r \in issued :
          \E i \in 1..Len(base64_decode(r.token).value), mask \in Masks :
             TokenTamper(r, i, mask)

SpecToken == TokenInit /\ [][TokenNext]_vars

(***************************************************************************)
(* The engine on its own, as its unit test uses it: built from the test's  *)
(* key and nonce, it seals a message and opens the result, the result cut  *)
(* short, and the result with one byte changed.                            *)
(***************************************************************************)
\* The longest message sealed, but for "hello".
MaxMessage == 2

\* The messages: those of up to MaxMessage bytes out of 0, "h" and 255, and
\* the unit test's "hello".
Messages ==
    UNION {[1..n -> {0, 104, 255}] : n \in 0..MaxMessage}
      \cup {<<104, 101, 108, 108, 111>>}

\* The engine of the unit test.
TestEngine == ChaCha20Poly1305_new(SECRET_KEY, SECRET_NONCE).value

\* The process serving, with the key material of the unit test, and nothing
\* called yet.
CallInit ==
    /\ TokenInit
    /\ now = 0

Called(call) ==
    /\ probe' = Some(call)
    /\ UNCHANGED <<env, proc, ENCRYPTER, now, person, person_seq, issued,
                   changed_since, last, finance, inflight>>

\* chacha20.encrypt(message)
CipherEncrypt(m) ==
    Called([call |-> "encrypt", message |-> m, input |-> m,
            output |-> encrypt(TestEngine, m)])

\* The last call was an encrypt that returned a ciphertext.
Sealing == probe.some /\ probe.value.call = "encrypt" /\ probe.value.output.ok

\* chacha20.decrypt(input), input having come of the ciphertext of the last
\* encrypt in the way kind tells.
Opened(kind, input) ==
    Called([call |-> "decrypt", kind |-> kind, message |-> probe.value.message,
            input |-> input, output |-> decrypt(TestEngine, input)])

\* chacha20.decrypt(encrypt)
CipherDecrypt ==
    /\ Sealing
    /\ Opened("sealed", probe.value.output.value)

\* decrypt of the first n bytes of the ciphertext, fewer than a tag.
CipherDecryptShort(n) ==
    /\ Sealing
    /\ Opened("short", SubSeq(probe.value.output.value, 1, n))

\* decrypt of the ciphertext with byte i changed by mask.
CipherDecryptTampered(i, mask) ==
    /\ Sealing
    /\ i <= Len(probe.value.output.value)
    /\ Opened("tampered", FlipByte(probe.value.output.value, i, mask))

CipherNext ==
    \/ \E m \in Messages : CipherEncrypt(m)
    \/ CipherDecrypt
    \/ \E n \in 0..(TAG_LEN - 1) : CipherDecryptShort(n)
    \/ \E i \in 1..(5 + TAG_LEN), mask \in Masks : CipherDecryptTampered(i, mask)

SpecCipher == CallInit /\ [][CipherNext]_vars

(***************************************************************************)
(* paginate on its own, as its unit tests call it.                         *)
(***************************************************************************)
\* The greatest page and page_size of the small ones.
MaxPage == 9

\* The usizes paginate is called with: the small ones, the page_size the
\* handlers default to and the greatest they accept, and the greatest usize
\* and the one before it.
PageInputs ==
    {ToUsize(n) : n \in 0..MaxPage} \cup {ToUsize(256), ToUsize(1024)}
      \cup {Pred(USIZE_MAX), USIZE_MAX}

\* paginate(page, page_size), o being what it makes.
Paginate(page, page_size, o) ==
    Called([call |-> "paginate", page |-> page, page_size |-> page_size,
            output |-> o])

PaginateNext ==
    \E page \in PageInputs, page_size \in PageInputs :
        \E o \in paginate(page, page_size) : Paginate(page, page_size, o)

SpecPaginate == CallInit /\ [][PaginateNext]_vars

(***************************************************************************)
(* The extractor under concurrency.  The tokio runtime has several worker  *)
(* threads, so the extractors of different requests run in parallel; each  *)
(* is the straight-line code of from_request_parts and Claim::verify, one  *)
(* step per function called.  A request is its id, its header, the step it *)
(* is at, the bytes and the claim it holds, and its outcome once it is     *)
(* Done.  LazyLock lets one thread run the initialiser while the others    *)
(* wait, so a use of ENCRYPTER is one step.                                *)
(***************************************************************************)
\* At most this many requests are in flight.
MaxInflight == 2

\* A request holds this until from_slice returns its claim.
NoClaim == [sub |-> 0, iat |-> 0, exp |-> 0]

Arrived(id, header) ==
    [id |-> id, header |-> header, pc |-> "NoHeader", bytes |-> <<>>,
     claim |-> NoClaim, outcome |-> "none"]

\* The request ended: Accepted, Panicked or the message of its rejection.
Ended(q, outcome) ==
    [q EXCEPT !.pc = "Done", !.bytes = <<>>, !.claim = NoClaim, !.outcome = outcome]

\* parts.headers.get(HEADER).ok_or(..)?
NoHeader(q) ==
    IF ~q.header.some THEN Ended(q, "not provide claim")
    ELSE [q EXCEPT !.pc = "Decoding"]

\* base64_decode(value)? having returned message
DecodingDone(q, message) ==
    IF ~message.ok THEN Ended(q, "invalid claim")
    ELSE [q EXCEPT !.pc = "Decrypting", !.bytes = message.value]

Decoding(q) == DecodingDone(q, base64_decode(q.header.value))

\* ENCRYPTER.decrypt(message)? having returned plaintext
DecryptingDone(q, plaintext) ==
    IF ~plaintext.ok THEN Ended(q, "invalid claim")
    ELSE [q EXCEPT !.pc = "Deserializing", !.bytes = plaintext.value]

\* cell is ENCRYPTER once used.
Decrypting(q, cell) ==
    IF cell.state = "poisoned" THEN Ended(q, "Panicked")
    ELSE DecryptingDone(q, decrypt(cell.value, q.bytes))

\* serde_json::from_slice(&ciphertext)? having returned claim
DeserializingDone(q, claim) ==
    IF ~claim.ok THEN Ended(q, "invalid claim")
    ELSE [q EXCEPT !.pc = "CheckingExpiry", !.bytes = <<>>, !.claim = claim.value]

Deserializing(q) == DeserializingDone(q, from_slice(q.bytes))

\* A variant that keeps the headers in flight in a replay cache and turns
\* down a claim presented twice at once.
CheckingExpiry_Replay(q) ==
    IF \E other \in inflight : other.id # q.id /\ other.header = q.header
    THEN Ended(q, "invalid claim")
    ELSE IF ~Claim_is_expire(q.claim) THEN Ended(q, "Accepted")
    ELSE Ended(q, "expired claim")

\* if !claim.is_expire() { Ok(claim) } else { Err(..) }
CheckingExpiry(q) ==
    IF ~Claim_is_expire(q.claim) THEN Ended(q, "Accepted")
    ELSE Ended(q, "expired claim")

\* The thread of request q makes a step that leaves it as next and
\* ENCRYPTER as cell.
Advance(q, next, cell) ==
    /\ inflight' = (inflight \ {q}) \cup {next}
    /\ ENCRYPTER' = cell
    /\ UNCHANGED <<env, proc, now, person, person_seq, issued, changed_since, last,
                   finance, probe>>

\* A request to a protected route arrives and is given a thread.
RequestArrive(id, header) ==
    /\ proc = "serving"
    /\ \A q \in inflight : q.id # id
    /\ inflight' = inflight \cup {Arrived(id, header)}
    /\ UNCHANGED <<env, proc, ENCRYPTER, now, person, person_seq, issued,
                   changed_since, last, finance, probe>>

StepNoHeader(q) == q.pc = "NoHeader" /\ Advance(q, NoHeader(q), ENCRYPTER)

StepDecoding(q) == q.pc = "Decoding" /\ Advance(q, Decoding(q), ENCRYPTER)

StepDecrypting(q) ==
    /\ q.pc = "Decrypting"
    /\ Advance(q, Decrypting(q, LazyForce(ENCRYPTER)), LazyForce(ENCRYPTER))

StepDeserializing(q) == q.pc = "Deserializing" /\ Advance(q, Deserializing(q), ENCRYPTER)

StepCheckingExpiry(q) ==
    q.pc = "CheckingExpiry" /\ Advance(q, CheckingExpiry(q), ENCRYPTER)

\* The request leaves the extractor: to its handler, or with its answer.
RequestLeave(q) ==
    /\ q.pc = "Done"
    /\ inflight' = inflight \ {q}
    /\ UNCHANGED <<env, proc, ENCRYPTER, now, person, person_seq, issued,
                   changed_since, last, finance, probe>>

ConcNext ==
    \/ Main
    \/ Tick
    \/ Jump
    \/ \E id \in 1..MaxInflight, h \in HeaderInputs : RequestArrive(id, h)
    \/ \E q \in inflight : StepNoHeader(q)
    \/ \E q \in inflight : StepDecoding(q)
    \/ \E q \in inflight : StepDecrypting(q)
    \/ \E q \in inflight : StepDeserializing(q)
    \/ \E q \in inflight : StepCheckingExpiry(q)
    \/ \E q \in inflight : RequestLeave(q)

SpecConc == Init /\ [][ConcNext]_vars

(***************************************************************************)
(* model/finance/object.rs called as its unit tests call it: setup()       *)
(* creates the tables and the test users, and the tests insert and delete  *)
(* objects.  probe holds the last call and, for each owner, the inserts    *)
(* that returned an id less the deletes that met a row.                    *)
(***************************************************************************)
\* At most this many objects are inserted in one behaviour.
MaxObject == 3

\* The users setup() inserts: "a" and "b" with the password "p".
TestPersons ==
    { [id |-> 1, nickname |-> <<97>>, password |-> Sha256Hex(<<112>>)],
      [id |-> 2, nickname |-> <<98>>, password |-> Sha256Hex(<<112>>)] }

Owners == {p.id : p \in TestPersons}

\* The symbols "A" and "B".
Symbols == { <<65>>, <<66>> }

ObjectInit ==
    /\ env = [SECRET_KEY |-> Some(SECRET_KEY), SECRET_NONCE |-> Some(SECRET_NONCE)]
    /\ proc = "serving"
    /\ ENCRYPTER = Uninit
    /\ now = 0
    /\ person = TestPersons
    /\ person_seq = Cardinality(TestPersons)
    /\ issued = {}
    /\ changed_since = {}
    /\ last = Idle
    /\ NoFinance
    /\ inflight = {}
    /\ probe = Some([call |-> "setup", tally |-> [o \in Owners |-> 0]])

\* A call of the model layer that returned the tables after it.
Stored(tables, call) ==
    /\ finance_object' = tables.object
    /\ finance_trade' = tables.trade
    /\ finance_trade_transaction' = tables.transaction
    /\ sqlite_sequence' = tables.sequence
    /\ probe' = Some(call)
    /\ UNCHANGED <<env, proc, ENCRYPTER, now, person, person_seq, issued,
                   changed_since, last, inflight>>

\* Object::insert(&conn, owner, symbol, None, None)
ObjectInsert(owner, symbol) ==
    /\ sqlite_sequence.finance_object < MaxObject
    /\ LET r == Object_insert(owner, symbol, None, None)
       IN  Stored(IF r.ok THEN r.value.tables ELSE Tables,
                  [call |-> "insert", id |-> IF r.ok THEN r.value.id ELSE 0,
                   owner |-> owner, ok |-> r.ok,
                   tally |-> IF r.ok
                             THEN [probe.value.tally EXCEPT ![owner] = @ + 1]
                             ELSE probe.value.tally])

\* Object::delete_by_id_owner(&conn, id, owner)
ObjectDelete(id, owner) ==
    LET r == Object_delete_by_id_owner(id, owner)
        met == Object_select_by_id_owner(id, owner).value.some
    IN  Stored(IF r.ok THEN r.value ELSE Tables,
               [call |-> "delete_by_id_owner", id |-> id, owner |-> owner,
                ok |-> r.ok,
                tally |-> IF r.ok /\ met
                          THEN [probe.value.tally EXCEPT ![owner] = @ - 1]
                          ELSE probe.value.tally])

ObjectNext ==
    \/ \E owner \in Owners \cup {3}, symbol \in Symbols : ObjectInsert(owner, symbol)
    \/ \E id \in 1..(MaxObject + 1), owner \in Owners : ObjectDelete(id, owner)

SpecObject == ObjectInit /\ [][ObjectNext]_vars

(***************************************************************************)
(* The finance routes, served to two registered persons.  The start is the *)
(* state of the server once "a" and "b" have registered with POST /person  *)
(* at 0 and got their claims.                                              *)
(***************************************************************************)
\* At most this many rows are inserted into each table in one behaviour.
MaxObjectRows == 2
MaxTrade == 1
MaxTransaction == 1

\* The claim POST /person issued to the person id at 0.
IssuedTo(id) ==
    LET claim == [sub |-> id, iat |-> 0, exp |-> WEEK_MS]
    IN  [token |-> Claim_issue(claim, SealEngine).value, claim |-> claim, at |-> 0]

FinanceInit ==
    /\ env = [SECRET_KEY |-> Some(SECRET_KEY), SECRET_NONCE |-> Some(SECRET_NONCE)]
    /\ proc = "serving"
    /\ ENCRYPTER = Ready(SealEngine)
    /\ now = 0
    /\ person = TestPersons
    /\ person_seq = Cardinality(TestPersons)
    /\ issued = {IssuedTo(p.id) : p \in TestPersons}
    /\ changed_since = {}
    /\ last = Idle
    /\ NoFinance
    /\ inflight = {}
    /\ probe = None

\* The X-Access-Claim headers of the two persons.
FinanceHeaders == {Some(r.token) : r \in {IssuedTo(p.id) : p \in TestPersons}}

\* The ids a request names: those given and one never given.
ObjectIds == 1..MaxObjectRows
TradeIds == 1..MaxTrade
TransactionIds == 1..MaxTransaction

NoParams == [id |-> None, page |-> None, page_size |-> None]

\* The queries of a GET: none, ?id=.., ?page=2&page_size=1, a page whose
\* offset does not fit a usize, and ?page=0.
FinanceParams(ids) ==
    {NoParams}
      \cup {[NoParams EXCEPT !.id = Some(i)] : i \in ids}
      \cup {[NoParams EXCEPT !.page = Some(ToUsize(2)), !.page_size = Some(ToUsize(1))],
            [NoParams EXCEPT !.page = Some(USIZE_MAX), !.page_size = Some(ToUsize(1024))],
            [NoParams EXCEPT !.page = Some(ToUsize(0))]}

\* A GET with a query: paginate is called as the handler calls it.
FinanceGet(route, header, path, params) ==
    \E paged \in Paged(params) :
        Protected(route, header, [path EXCEPT !.params = params, !.paged = paged])

\* What a request to a finance route carries, beside its header.
NoBody ==
    [id |-> 0, trade_id |-> 0, params |-> NoParams, paged |-> [panic |-> FALSE],
     payload |-> None]

ObjectGet(header, params) ==
    FinanceGet("GET /finance/objects", header, NoBody, params)

ObjectPost(header, payload) ==
    /\ sqlite_sequence.finance_object < MaxObjectRows
    /\ Protected("POST /finance/objects", header, [NoBody EXCEPT !.payload = payload])

ObjectPut(header, id, payload) ==
    Protected("PUT /finance/objects/:id", header,
              [NoBody EXCEPT !.id = id, !.payload = payload])

ObjectDeleteById(header, id) ==
    Protected("DELETE /finance/objects/:id", header, [NoBody EXCEPT !.id = id])

TradeGet(header, params) ==
    FinanceGet("GET /finance/trades", header, NoBody, params)

TradePost(header, payload) ==
    /\ sqlite_sequence.finance_trade < MaxTrade
    /\ Protected("POST /finance/trades", header, [NoBody EXCEPT !.payload = payload])

TradePut(header, id, payload) ==
    Protected("PUT /finance/trades/:id", header,
              [NoBody EXCEPT !.id = id, !.payload = payload])

TradeDelete(header, id) ==
    Protected("DELETE /finance/trades/:id", header, [NoBody EXCEPT !.id = id])

TransactionGet(header, trade_id, params) ==
    FinanceGet("GET /finance/trades/:trade_id/transactions", header,
               [NoBody EXCEPT !.trade_id = trade_id], params)

TransactionPost(header, trade_id, payload) ==
    /\ sqlite_sequence.finance_trade_transaction < MaxTransaction
    /\ Protected("POST /finance/trades/:trade_id/transactions", header,
                 [NoBody EXCEPT !.trade_id = trade_id, !.payload = payload])

TransactionPut(header, trade_id, id, payload) ==
    Protected("PUT /finance/trades/:trade_id/transactions/:id", header,
              [NoBody EXCEPT !.trade_id = trade_id, !.id = id, !.payload = payload])

TransactionDelete(header, trade_id, id) ==
    Protected("DELETE /finance/trades/:trade_id/transactions/:id", header,
              [NoBody EXCEPT !.trade_id = trade_id, !.id = id])

\* The bodies: a symbol "A" or none at all; a new symbol "BB"; the objects
\* of a trade; a new base object; a quantity of 1; a new quantity.
ObjectPostBodies ==
    { [symbol |-> <<65>>, alias |-> None, remark |-> None],
      [symbol |-> <<>>, alias |-> None, remark |-> None] }

ObjectPutBodies == { [symbol |-> Some(<<66, 66>>), alias |-> None, remark |-> None] }

TradePostBodies ==
    { [base_object_id |-> b, quote_object_id |-> q, alias |-> None, remark |-> None] :
        b \in ObjectIds, q \in ObjectIds }

TradePutBodies ==
    { [base_object_id |-> Some(b), quote_object_id |-> None,
       alias |-> None, remark |-> None] : b \in ObjectIds }

TransactionPostBodies ==
    { [quantity |-> 1, is_base_to_quote |-> TRUE, alias |-> None, remark |-> None,
       occurrence_at |-> None] }

TransactionPutBodies ==
    { [quantity |-> Some(2), is_base_to_quote |-> None, alias |-> None,
       remark |-> None, occurrence_at |-> None] }

FinanceNext ==
    \/ Reply
    \/ \E h \in FinanceHeaders, p \in FinanceParams(ObjectIds) : ObjectGet(h, p)
    \/ \E h \in FinanceHeaders, b \in ObjectPostBodies : ObjectPost(h, b)
    \/ \E h \in FinanceHeaders, id \in ObjectIds, b \in ObjectPutBodies :
          ObjectPut(h, id, b)
    \/ \E h \in FinanceHeaders, id \in ObjectIds : ObjectDeleteById(h, id)
    \/ \E h \in FinanceHeaders, p \in FinanceParams(TradeIds) : TradeGet(h, p)
    \/ \E h \in FinanceHeaders, b \in TradePostBodies : TradePost(h, b)
    \/ \E h \in FinanceHeaders, id \in TradeIds, b \in TradePutBodies :
          TradePut(h, id, b)
    \/ \E h \in FinanceHeaders, id \in TradeIds : TradeDelete(h, id)
    \/ \E h \in FinanceHeaders, t \in TradeIds, p \in FinanceParams(TransactionIds) :
          TransactionGet(h, t, p)
    \/ \E h \in FinanceHeaders, t \in TradeIds, b \in TransactionPostBodies :
          TransactionPost(h, t, b)
    \/ \E h \in FinanceHeaders, t \in TradeIds, id \in TransactionIds,
          b \in TransactionPutBodies : TransactionPut(h, t, id, b)
    \/ \E h \in FinanceHeaders, t \in TradeIds, id \in TransactionIds :
          TransactionDelete(h, t, id)

SpecFinance == FinanceInit /\ [][FinanceNext]_vars

(***************************************************************************)
(* The POST and PUT routes of api/finance alone, with bodies of a PUT that *)
(* hold one field or another: a new symbol "BB" or a new alias "xx" for an *)
(* object; a new base object or a new alias for a trade; a new quantity,   *)
(* or a new direction and time, for a transaction.                         *)
(***************************************************************************)
NoObjectPut == [symbol |-> None, alias |-> None, remark |-> None]

ObjectFieldBodies ==
    { [NoObjectPut EXCEPT !.symbol = Some(<<66, 66>>)],
      [NoObjectPut EXCEPT !.alias = Some(<<120, 120>>)] }

NoTradePut ==
    [base_object_id |-> None, quote_object_id |-> None, alias |-> None, remark |-> None]

TradeFieldBodies ==
    { [NoTradePut EXCEPT !.base_object_id = Some(b)] : b \in ObjectIds }
      \cup { [NoTradePut EXCEPT !.alias = Some(<<120>>)] }

NoTransactionPut ==
    [quantity |-> None, is_base_to_quote |-> None, alias |-> None, remark |-> None,
     occurrence_at |-> None]

TransactionFieldBodies ==
    { [NoTransactionPut EXCEPT !.quantity = Some(2)],
      [NoTransactionPut EXCEPT !.is_base_to_quote = Some(FALSE),
                               !.occurrence_at = Some(5)] }

PutNext ==
    \/ Reply
    \/ \E h \in FinanceHeaders, b \in ObjectPostBodies : ObjectPost(h, b)
    \/ \E h \in FinanceHeaders, id \in ObjectIds, b \in ObjectFieldBodies :
          ObjectPut(h, id, b)
    \/ \E h \in FinanceHeaders, b \in TradePostBodies : TradePost(h, b)
    \/ \E h \in FinanceHeaders, id \in TradeIds, b \in TradeFieldBodies :
          TradePut(h, id, b)
    \/ \E h \in FinanceHeaders, t \in TradeIds, b \in TransactionPostBodies :
          TransactionPost(h, t, b)
    \/ \E h \in FinanceHeaders, t \in TradeIds, id \in TransactionIds,
          b \in TransactionFieldBodies : TransactionPut(h, t, id, b)

SpecPut == FinanceInit /\ [][PutNext]_vars

(***************************************************************************)
(* The handlers of api/person and the delete of api/finance/object.rs      *)
(* under concurrency.  A handler is an async fn that never awaits, run on  *)
(* one of the runtime's worker threads with a connection of its own from   *)
(* the pool (consts.rs: r2d2's default of 10), so the handlers of          *)
(* different requests run in parallel and their SQL statements interleave; *)
(* SQLite runs each statement as one transaction.  A request is its id,    *)
(* its route, the subject of its Claim (0: none), its body, the statement  *)
(* it is at, the row it holds, and its response once it is Done (None: it  *)
(* panicked).                                                              *)
(***************************************************************************)
\* At most this many requests arrive in one behaviour.
MaxCalls == 3

\* What a request holds for a row before it has read one.
NoRow == [id |-> 0, nickname |-> <<>>, password |-> Sha256Hex(<<>>)]

NoObject ==
    [id |-> 0, owner |-> 0, symbol |-> <<>>, alias |-> None, remark |-> None]

Call(id, route, subject, payload) ==
    [id |-> id, route |-> route, subject |-> subject, payload |-> payload,
     pc |-> "select", row |-> NoRow, object |-> NoObject, path |-> 0,
     result |-> None, response |-> None]

\* The request q returned response, or panicked.
Returned(q, response) == [q EXCEPT !.pc = "Done", !.response = Some(response)]
Aborted(q) == [q EXCEPT !.pc = "Done"]

\* A step of the request q, which becomes next.
Stepped(q, next) ==
    /\ inflight' = (inflight \ {q}) \cup {next}
    /\ UNCHANGED <<env, proc, now, changed_since, last, probe>>

\* POST /person arrives: validate_value, then connection().
PersonPostArrive(id, payload) ==
    /\ \A q \in inflight : q.id # id
    /\ LET nickname == validate_nickname(payload.nickname.value)
           password == validate_password(payload.password.value)
           q == Call(id, "POST /person", 0, payload)
       IN  inflight' = inflight \cup
              {IF ~nickname.ok THEN Returned(q, nickname.error)
               ELSE IF ~password.ok THEN Returned(q, password.error)
               ELSE [q EXCEPT !.row = [NoRow EXCEPT !.nickname = nickname.value,
                                                    !.password = password.value]]}
    /\ UNCHANGED <<env, proc, ENCRYPTER, now, person, person_seq, issued,
                   changed_since, last, finance, probe>>

\* post::handler: Person::select_one_by_nickname
PersonPostSelect(q) ==
    /\ q.route = "POST /person" /\ q.pc = "select"
    /\ Stepped(q, IF Person_select_one_by_nickname(q.row.nickname).some
                  THEN Returned(q, Response_bad_request("nickname already exists"))
                  ELSE [q EXCEPT !.pc = "insert"])
    /\ UNCHANGED <<ENCRYPTER, person, person_seq, issued, finance>>

\* post::handler: Person::insert_one
PersonPostInsert(q) ==
    /\ q.route = "POST /person" /\ q.pc = "insert"
    /\ LET inserted == Person_insert_one(q.row.nickname, q.row.password)
       IN  IF ~inserted.ok
           THEN /\ Stepped(q, Returned(q, Response_bad_request(inserted.error)))
                /\ UNCHANGED <<person, person_seq>>
           ELSE /\ Stepped(q, [q EXCEPT !.pc = "issue", !.row = inserted.value.row])
                /\ person' = inserted.value.table
                /\ person_seq' = inserted.value.row.id
    /\ UNCHANGED <<ENCRYPTER, issued, finance>>

\* post::handler: Claim::new(person.id()).issue()
PersonPostIssue(q) ==
    /\ q.route = "POST /person" /\ q.pc = "issue"
    /\ LET cell == LazyForce(ENCRYPTER)
           claim == Claim_new(q.row.id)
           token == Claim_issue(claim, cell.value)
       IN  /\ ENCRYPTER' = cell
           /\ IF cell.state = "poisoned"
              THEN Stepped(q, Aborted(q)) /\ issued' = issued
              ELSE IF ~token.ok
              THEN /\ Stepped(q, Returned(q, Response_bad_request(token.error)))
                   /\ issued' = issued
              ELSE /\ Stepped(q, Returned(q, Response_ok([claim |-> token.value])))
                   /\ issued' = issued \cup {[token |-> token.value, claim |-> claim,
                                              at |-> now]}
    /\ UNCHANGED <<person, person_seq, finance>>

\* A request with a Claim arrives: the extractor runs, then connection().
Claimed(id, route, header, payload, path) ==
    /\ \A q \in inflight : q.id # id
    /\ LET a == from_request_parts(header)
           q == [Call(id, route, 0, payload) EXCEPT !.path = path]
       IN  /\ ENCRYPTER' = a.cell
           /\ inflight' = inflight \cup
                 {IF a.panic THEN Aborted(q)
                  ELSE IF ~a.result.ok THEN Returned(q, a.result.error)
                  ELSE [q EXCEPT !.subject = Claim_subject(a.result.value)]}
    /\ UNCHANGED <<env, proc, now, person, person_seq, issued, changed_since,
                   last, finance, probe>>

PersonPutArrive(id, header, payload) == Claimed(id, "PUT /person", header, payload, 0)

\* put::handler: Person::select_one_by_id, then the body is validated and
\* the person the handler holds is changed.
PersonPutSelect(q) ==
    /\ q.route = "PUT /person" /\ q.pc = "select"
    /\ LET found == Person_select_one_by_id(q.subject)
           nickname == IF q.payload.nickname.some
                       THEN validate_nickname(q.payload.nickname.value)
                       ELSE Ok(<<>>)
           password == IF q.payload.password.some
                       THEN validate_password(q.payload.password.value)
                       ELSE Ok(Sha256Hex(<<>>))
           newNick == q.payload.nickname.some /\ found.value.nickname # nickname.value
           newPass == q.payload.password.some /\ found.value.password # password.value
           held == [found.value EXCEPT
                      !.nickname = IF newNick THEN nickname.value ELSE @,
                      !.password = IF newPass THEN password.value ELSE @]
           result == IF newNick THEN Some(nickname.value) ELSE None
       IN  Stepped(q, IF ~found.some
                      THEN Returned(q, Response_bad_request("person does not exist"))
                      ELSE IF ~nickname.ok THEN Returned(q, nickname.error)
                      ELSE IF ~password.ok THEN Returned(q, password.error)
                      ELSE IF ~(newNick \/ newPass)
                      THEN Returned(q, Response_ok([nickname |-> result]))
                      ELSE [q EXCEPT !.pc = "update", !.row = held,
                                     !.result = result])
    /\ UNCHANGED <<ENCRYPTER, person, person_seq, issued, finance>>

\* put::handler: Person::update_one_by_id
PersonPutUpdate(q) ==
    /\ q.route = "PUT /person" /\ q.pc = "update"
    /\ LET updated == Person_update_one_by_id(q.row.id, q.row)
       IN  IF ~updated.ok
           THEN /\ Stepped(q, Returned(q, Response_bad_request(updated.error)))
                /\ person' = person
           ELSE /\ Stepped(q, Returned(q, Response_ok([nickname |-> q.result])))
                /\ person' = updated.value
    /\ UNCHANGED <<ENCRYPTER, person_seq, issued, finance>>

\* The bodies: the nickname "c", new, or "a", taken, with the password "p";
\* a PUT of the nickname "c" alone or of the password "q" alone.
ConcPostBodies ==
    { [nickname |-> Some(n), password |-> Some(<<112>>)] : n \in {<<99>>, <<97>>} }

ConcPutBodies ==
    { [nickname |-> Some(<<99>>), password |-> None],
      [nickname |-> None, password |-> Some(<<113>>)] }

PersonConcNext ==
    \/ \E id \in 1..MaxCalls, b \in ConcPostBodies : PersonPostArrive(id, b)
    \/ \E q \in inflight : PersonPostSelect(q)
    \/ \E q \in inflight : PersonPostInsert(q)
    \/ \E q \in inflight : PersonPostIssue(q)
    \/ \E id \in 1..MaxCalls, h \in FinanceHeaders, b \in ConcPutBodies :
          PersonPutArrive(id, h, b)
    \/ \E q \in inflight : PersonPutSelect(q)
    \/ \E q \in inflight : PersonPutUpdate(q)

\* The server is serving: with valid key material two persons have
\* registered; with any other nobody has, and ENCRYPTER has not been used.
PersonConcInit ==
    \/ FinanceInit
    \/ /\ env \in EnvChoices
       /\ ~KeyMaterialValid
       /\ proc = "serving"
       /\ ENCRYPTER = Uninit
       /\ now = 0
       /\ person = {}
       /\ person_seq = 0
       /\ issued = {}
       /\ changed_since = {}
       /\ last = Idle
       /\ NoFinance
       /\ inflight = {}
       /\ probe = None

SpecPersonConc == PersonConcInit /\ [][PersonConcNext]_vars

(***************************************************************************)
(* DELETE /finance/objects/:id under concurrency: the two persons post     *)
(* objects, and requests to delete one arrive and run their two            *)
(* statements, the SELECT and the DELETE, in any order with those of the   *)
(* others.                                                                 *)
(***************************************************************************)
\* At most this many requests to delete arrive in one behaviour.
MaxDeletes == 2

\* A DELETE has no body.
NoPayload == [nickname |-> None, password |-> None]

ObjectDeleteArrive(id, header, path) ==
    Claimed(id, "DELETE /finance/objects/:id", header, NoPayload, path)

\* delete::handler: Object::select_by_id_owner(..)?.ok_or(not_found)?
ObjectDeleteSelect(q) ==
    /\ q.route = "DELETE /finance/objects/:id" /\ q.pc = "select"
    /\ LET object == Object_select_by_id_owner(q.path, q.subject)
       IN  Stepped(q, IF ~object.value.some
                      THEN Returned(q, DoesNotExist("object", q.path))
                      ELSE [q EXCEPT !.pc = "delete", !.object = object.value.value])
    /\ UNCHANGED <<ENCRYPTER, person, person_seq, issued, finance>>

\* delete::handler: Object::delete_by_id_owner(..)?, then Ok(Response::ok(..))
\* of the object the handler holds.
ObjectDeleteDelete(q) ==
    /\ q.route = "DELETE /finance/objects/:id" /\ q.pc = "delete"
    /\ LET deleted == Object_delete_by_id_owner(q.path, q.subject)
       IN  /\ finance_object' = deleted.value.object
           /\ finance_trade' = deleted.value.trade
           /\ finance_trade_transaction' = deleted.value.transaction
           /\ sqlite_sequence' = deleted.value.sequence
           /\ Stepped(q, Returned(q, Response_ok(q.object)))
    /\ UNCHANGED <<ENCRYPTER, person, person_seq, issued>>

DeleteNext ==
    \/ Reply
    \/ \E h \in FinanceHeaders, b \in ObjectPostBodies : ObjectPost(h, b)
    \/ \E id \in 1..MaxDeletes, h \in FinanceHeaders, path \in ObjectIds :
          ObjectDeleteArrive(id, h, path)
    \/ \E q \in inflight : ObjectDeleteSelect(q)
    \/ \E q \in inflight : ObjectDeleteDelete(q)

SpecDelete == FinanceInit /\ [][DeleteNext]_vars

(***************************************************************************)
(* The adapter over time: the clock runs forward by a millisecond or by    *)
(* seven days, "a" asks for further claims with POST /person/claim, and    *)
(* GET /person is asked with each claim issued so far.                     *)
(***************************************************************************)
\* The clock stops here, a millisecond past the fourteenth day.
MaxNow == 2 * WEEK_MS + 1

\* At most this many claims are issued in one behaviour.
MaxTokens == 3

ClockSteps == {1, WEEK_MS}

\* The clock advances by d: by seven days, or from the start of a day by a
\* millisecond.
Elapse(d) ==
    /\ last = Idle
    /\ now + d <= MaxNow
    /\ d < WEEK_MS => now % WEEK_MS < MaxTick
    /\ now' = now + d
    /\ UNCHANGED <<env, proc, ENCRYPTER, person, person_seq, issued, changed_since, last>>
    /\ UNCHANGED <<finance, inflight, probe>>

\* The tokens a request was turned down with as expired, so far.
Refused == IF probe.some THEN probe.value ELSE {}

\* The answer is written, and a token turned down as expired is noted.
ExpiryReply ==
    /\ last # Idle
    /\ last' = Idle
    /\ probe' = IF /\ last.outcome = "Rejected"
                   /\ last.response = Some(Response_bad_request("expired claim"))
                THEN Some(Refused \cup {last.header.value})
                ELSE probe
    /\ UNCHANGED <<env, proc, ENCRYPTER, now, person, person_seq, issued, changed_since>>
    /\ UNCHANGED <<finance, inflight>>

ExpiryClaimPost ==
    /\ Cardinality(issued) < MaxTokens
    /\ LET payload == [nickname |-> <<97>>, password |-> <<112>>]
       IN  Public("POST /person/claim", payload, person_claim_post_handler(payload))

ExpiryNext ==
    \/ ExpiryReply
    \/ \E d \in ClockSteps : Elapse(d)
    \/ ExpiryClaimPost
    \/ \E r \in issued : PersonGetSingle(Some(r.token))

SpecExpiry == FinanceInit /\ [][ExpiryNext]_vars

(***************************************************************************)
(* The properties.                                                         *)
(***************************************************************************)
ProtectedRoutes == {"GET /person", "PUT /person"}

\* The request in progress is one to a protected route.
OnProtected == last.route \in ProtectedRoutes

\* The answers of the adapter, written out.
RejectedWith(message) ==
    Some([ok |-> FALSE, code |-> 400, data |-> None, message |-> Some(message)])

\* The request in progress carried a header that Claim::verify turned down.
VerifyFailed == last.verified.some /\ ~last.verified.value.ok

\* The request in progress carried a header that Claim::verify returned a
\* claim for.
VerifyPassed == last.verified.some /\ last.verified.value.ok

\* C1: a request to a protected route whose header is absent, or fails
\* verification, or holds a claim that expired before now, never reaches its
\* handler, makes no database call and leaves the tables as they were; its
\* answer has code 400 and a message.
C1_RejectionSkipsHandler ==
    [][ (/\ last'.route \in ProtectedRoutes
         /\ \/ ~last'.header.some
            \/ last'.verified.some /\ ~last'.verified.value.ok
            \/ last'.verified.some /\ last'.verified.value.ok
                 /\ last'.verified.value.value.exp < now')
        => (/\ ~last'.handler
            /\ last'.db = 0
            /\ UNCHANGED <<person, person_seq>>
            /\ last'.response.some
            /\ last'.response.value.code = 400
            /\ ~last'.response.value.ok
            /\ last'.response.value.message.some) ]_vars

\* C1: a rejection of each kind at once is not one state; this one is the
\* rejection of an expired claim of a registered person, on PUT /person.
C1_Witness ==
    /\ last.route = "PUT /person"
    /\ \E r \in issued : last.header = Some(r.token) /\ r.claim.exp < now
    /\ person # {}
    /\ last.outcome = "Rejected"
    /\ ~last.handler

\* C2: whichever of decoding, decrypting and deserializing failed, the
\* request is rejected with one and the same answer: code 400, no data, the
\* message "invalid claim".
C2_OneInvalidClaim ==
    (OnProtected /\ VerifyFailed)
        => (/\ last.outcome = "Rejected"
            /\ last.response = RejectedWith("invalid claim")
            /\ ~last.handler)

\* C2: a header that decodes and decrypts and fails to deserialize was
\* rejected.
C2_Witness ==
    /\ OnProtected
    /\ VerifyFailed
    /\ last.steps = <<"NoHeader", "Decoding", "Decrypting", "Deserializing">>
    /\ last.outcome = "Rejected"

\* C3: when verification returned a claim, the request is rejected with
\* "expired claim" if the claim's expiry is before now, and otherwise it is
\* accepted and the handler is given the claim's sub as the subject.
C3_ExpiredOrAccepted ==
    (OnProtected /\ VerifyPassed)
        => IF last.verified.value.value.exp < now
           THEN /\ last.outcome = "Rejected"
                /\ last.response = RejectedWith("expired claim")
           ELSE /\ last.outcome = "Accepted"
                /\ last.handler
                /\ last.subject = Some(last.verified.value.value.sub)

\* C3: a claim of subject 2 issued at 1 was accepted.
C3_Witness ==
    /\ OnProtected
    /\ VerifyPassed
    /\ last.verified.value.value.sub = 2
    /\ last.verified.value.value.iat = 1
    /\ last.outcome = "Accepted"
    /\ last.subject = Some(2)

\* C4 as stated: a request to a protected route without the header is
\* rejected with the message "missing claim", and no step after NoHeader is
\* entered.
C4_MissingClaim ==
    (OnProtected /\ ~last.header.some)
        => (/\ last.outcome = "Rejected"
            /\ last.response = RejectedWith("missing claim")
            /\ last.steps = <<"NoHeader">>)

\* C4, amended: a request to a protected route without the header is
\* rejected with the message "not provide claim", and no step after NoHeader
\* is entered: Claim::verify is not called.
C4_NotProvideClaim ==
    (OnProtected /\ ~last.header.some)
        => (/\ last.outcome = "Rejected"
            /\ last.response = RejectedWith("not provide claim")
            /\ last.steps = <<"NoHeader">>
            /\ ~last.verified.some
            /\ ~last.handler)

\* C4: a request without the header was rejected, in a process whose
\* ENCRYPTER was never used.
C4_Witness ==
    /\ OnProtected
    /\ ~last.header.some
    /\ last.outcome = "Rejected"
    /\ ENCRYPTER = Uninit

\* C5: Claim::verify of the token Claim::issue returned for a new claim of
\* subject s returns Ok with a claim of the same sub, iat and exp.
C5_RoundTrip ==
    \A r \in issued :
        (last.route = "Claim::verify" /\ last.header = Some(r.token))
            => /\ last.verified.some
               /\ last.verified.value.ok
               /\ last.verified.value.value.sub = r.claim.sub
               /\ last.verified.value.value.iat = r.claim.iat
               /\ last.verified.value.value.exp = r.claim.exp

\* C5: the token of a claim of the negative subject -42, issued at a clock
\* reading of ten digits, was verified.
C5_Witness ==
    /\ last.route = "Claim::verify"
    /\ \E r \in issued : /\ last.header = Some(r.token)
                         /\ r.claim.sub = -42
                         /\ r.claim.iat = 1542683647
    /\ VerifyPassed

\* C6: a claim is expired exactly if its exp is less than the clock
\* reading; a request whose claim has exp equal to now is accepted, one
\* whose claim has exp equal to now - 1 is rejected with "expired claim".
C6_ExpiryBoundary ==
    /\ \A r \in issued : Claim_is_expire(r.claim) <=> (r.claim.exp < now)
    /\ (OnProtected /\ VerifyPassed)
         => /\ (last.verified.value.value.exp = now => last.outcome = "Accepted")
            /\ (last.verified.value.value.exp = now - 1
                  => /\ last.outcome = "Rejected"
                     /\ last.response = RejectedWith("expired claim"))

\* C6: a claim issued at 0 was accepted at 604800000, its exp.
C6_Witness ==
    /\ OnProtected
    /\ now = 604800000
    /\ \E r \in issued : /\ last.header = Some(r.token)
                         /\ r.claim.iat = 0
                         /\ r.claim.exp = now
    /\ last.outcome = "Accepted"

\* C7: every claim issued by registration or login has exp = iat +
\* 604800000 and iat = the clock reading at its creation, and a claim once
\* issued stays as it is.
C7_IssuedLifetime ==
    [][ /\ \A r \in issued' : /\ r.claim.exp = r.claim.iat + 604800000
                              /\ r.claim.iat = r.at
        /\ issued \subseteq issued' ]_vars

\* C7: a login at 1 answered with a token that expires at 604800001, after
\* a registration at 0.
C7_Witness ==
    /\ last.route = "POST /person/claim"
    /\ last.response.some
    /\ last.response.value.ok
    /\ last.response.value.data.value.expire = 604800001
    /\ \E r \in issued : /\ r.token = last.response.value.data.value.claim
                         /\ r.at = 1
                         /\ r.claim.iat = 1
    /\ \E r \in issued : r.at = 0 /\ r.claim.exp = 604800000

\* Byte strings of one length that differ in exactly one place.
OneByteApart(a, b) ==
    /\ Len(a) = Len(b)
    /\ Cardinality({i \in 1..Len(a) : a[i] # b[i]}) = 1

\* The request in progress carries a header whose decoded bytes differ in
\* exactly one place from those of the issued token r.
TamperOf(r) ==
    /\ last.header.some
    /\ base64_decode(last.header.value).ok
    /\ OneByteApart(base64_decode(last.header.value).value,
                    base64_decode(r.token).value)

\* C8: a request to a protected route whose token is an issued one with one
\* byte of the decoded ciphertext changed, in the body or in the tag, fails
\* verification and is rejected with "invalid claim".
C8_TamperRejected ==
    \A r \in issued :
        (OnProtected /\ TamperOf(r))
            => /\ VerifyFailed
               /\ last.outcome = "Rejected"
               /\ last.response = RejectedWith("invalid claim")
               /\ ~last.handler

\* C8: the changed byte is the digit of the subject 1 (byte 8 of the body)
\* with its lowest bit flipped: without the tag the plaintext would read as
\* a claim of subject 0.
C8_Witness ==
    /\ OnProtected
    /\ \E r \in issued :
          /\ r.claim.sub = 1
          /\ TamperOf(r)
          /\ base64_decode(last.header.value).value[8]
               = Xor8(base64_decode(r.token).value[8], 1)
          /\ base64_decode(last.header.value).value[8]
               # base64_decode(r.token).value[8]
    /\ last.outcome = "Rejected"

\* C9 as stated: a process whose SECRET_KEY or SECRET_NONCE is missing or
\* of the wrong length answers no request.
C9_NoAnswerWithoutKeyMaterial ==
    ~KeyMaterialValid => ~last.response.some

\* C10: a request to a protected route with an issued token, made at a time
\* from the claim's iat to its exp, is accepted for the claim's subject,
\* whatever happened to the account since.
C10_NoRevocation ==
    \A r \in issued :
        (/\ OnProtected
         /\ last.header = Some(r.token)
         /\ r.claim.iat <= now
         /\ now <= r.claim.exp)
            => /\ last.outcome = "Accepted"
               /\ last.handler
               /\ last.subject = Some(r.claim.sub)

\* C10: a token was accepted after its account was changed through PUT
\* /person and after a later login issued another claim for the subject.
C10_Witness ==
    /\ OnProtected
    /\ last.outcome = "Accepted"
    /\ \E r \in issued :
          /\ last.header = Some(r.token)
          /\ r.token \in changed_since
          /\ now > r.at
          /\ \E q \in issued : q.claim.sub = r.claim.sub /\ q.at > r.at

\* The messages of the adapter's three rejections: of an absent header, of
\* a header that fails verification, of an expired claim.
RejectionMessages == {"not provide claim", "invalid claim", "expired claim"}

\* C12: a request to a protected route whose header is absent, or fails
\* verification, or holds an expired claim, is answered with code 400
\* whichever of the three it is, with a message and with no data.
C12_UniformRejection ==
    (/\ OnProtected
     /\ \/ ~last.header.some
        \/ VerifyFailed
        \/ VerifyPassed /\ last.verified.value.value.exp < now)
        => (/\ last.response.some
            /\ last.response.value.code = 400
            /\ ~last.response.value.ok
            /\ last.response.value.data = None
            /\ last.response.value.message.some
            /\ last.response.value.message.value \in RejectionMessages)

\* C12: a claim sealed elsewhere that expired at 0 was rejected at a later
\* time, with code 400.
C12_Witness ==
    /\ last.route = "GET /person"
    /\ VerifyPassed
    /\ last.verified.value.value.exp = 0
    /\ now > 0
    /\ last.response.some
    /\ last.response.value.code = 400
    /\ last.response.value.message = Some("expired claim")

\* C13 as stated: every request to a protected route ends in Accepted or in
\* one of the three rejections, the handler having run only if Accepted;
\* the adapter entered no step twice, NoHeader first; and once the request
\* has ended nothing follows but the next request.
C13_SingleShot ==
    [][ /\ last'.route \in ProtectedRoutes
          => /\ last'.outcome \in {"Accepted", "Rejected"}
             /\ last'.outcome = "Accepted" <=> last'.handler
             /\ last'.outcome = "Rejected"
                  => /\ last'.response.some
                     /\ last'.response.value.message.some
                     /\ last'.response.value.message.value \in RejectionMessages
             /\ Len(last'.steps) >= 1
             /\ last'.steps[1] = "NoHeader"
             /\ \A i, j \in 1..Len(last'.steps) :
                   last'.steps[i] = last'.steps[j] => i = j
        /\ last.route \in ProtectedRoutes => last' = Idle ]_vars

\* C15: Claim::verify of an issued token returns its claim, at whatever
\* time: also after the claim's expiry.
C15_VerifyIgnoresExpiry ==
    \A r \in issued :
        (OnProtected /\ last.header = Some(r.token))
            => last.verified = Some(Ok(r.claim))

\* C15: verify returned the claim of a token issued at 0 in a request made
\* after its expiry, and the request was rejected as expired after that.
C15_Witness ==
    /\ OnProtected
    /\ \E r \in issued : /\ last.header = Some(r.token)
                         /\ r.at = 0
                         /\ r.claim.exp < now
                         /\ last.verified = Some(Ok(r.claim))
    /\ last.steps = <<"NoHeader", "Decoding", "Decrypting", "Deserializing",
                      "CheckingExpiry">>
    /\ last.response = RejectedWith("expired claim")

C18_LoginIssuesOnMatch ==
    [][ last'.route = "POST /person/claim"
          => IF \E row \in person :
                   /\ row.nickname = last'.body.value.nickname
                   /\ row.password = Sha256Hex(last'.body.value.password)
             THEN /\ last'.response.some
                  /\ last'.response.value.ok
                  /\ \E r \in issued', row \in person :
                        /\ row.nickname = last'.body.value.nickname
                        /\ r.claim.sub = row.id
                        /\ r.at = now
                        /\ r.token = last'.response.value.data.value.claim
                        /\ r.claim.exp = last'.response.value.data.value.expire
             ELSE /\ last'.response.some
                  /\ last'.response.value.code = 400
                  /\ ~last'.response.value.ok
                  /\ issued' = issued ]_vars

\* C17: decrypt of what encrypt returned for a message returns the message;
\* decrypt of fewer than 16 bytes, and decrypt of a ciphertext one byte of
\* which was changed, in the body or in the tag, return an error.
C17_OpenSeal ==
    (probe.some /\ probe.value.call = "decrypt")
        => /\ probe.value.kind = "sealed" => probe.value.output = Ok(probe.value.message)
           /\ Len(probe.value.input) < 16 => ~probe.value.output.ok
           /\ probe.value.kind = "tampered" => ~probe.value.output.ok

\* C17: the unit test's round trip of "hello" through a ciphertext of 21
\* bytes.
C17_Witness ==
    /\ probe.some
    /\ probe.value.call = "decrypt"
    /\ probe.value.kind = "sealed"
    /\ Len(probe.value.input) = 21
    /\ probe.value.output = Ok(<<104, 101, 108, 108, 111>>)

\* C19 as stated: paginate(page, page_size) returns limit = page_size and
\* offset = (page - 1) * page_size, a page of 0 counting as 1 and a
\* page_size of 0 as 64; offset is 0 for the pages 0 and 1.
C19_Paginate ==
    (probe.some /\ probe.value.call = "paginate")
        => /\ ~probe.value.output.panic
           /\ probe.value.output.limit
                = (IF IsZero(probe.value.page_size) THEN ToUsize(64)
                   ELSE probe.value.page_size)
           /\ probe.value.output.offset \o ToUsize(0)
                = Product(Pred(IF IsZero(probe.value.page) THEN ToUsize(1)
                               ELSE probe.value.page),
                          probe.value.output.limit)
           /\ probe.value.page \in {ToUsize(0), ToUsize(1)}
                => IsZero(probe.value.output.offset)

\* What the extractor run on its own made of a request: Accepted, Panicked
\* or the message of its rejection.
OutcomeOf(a) ==
    IF a.panic THEN "Panicked"
    ELSE IF a.result.ok THEN "Accepted"
    ELSE a.result.error.message.value

\* C14: whatever the other requests in flight do and wherever they are, a
\* request ends as the extractor run on its own, on the same header at the
\* same clock reading, ends; and ENCRYPTER, once initialised, and the
\* environment it is initialised from are never written.
C14_Independent ==
    [][ /\ \A q \in inflight' \ inflight :
              q.pc = "Done" => q.outcome = OutcomeOf(from_request_parts(q.header))
        /\ ENCRYPTER.state # "uninit" => ENCRYPTER' = ENCRYPTER
        /\ env' = env ]_vars

\* C14: two requests with one header, a claim that expired at 0, were in
\* flight together; one was accepted at 0 and the other rejected as expired
\* after the clock had moved on.
C14_Witness ==
    \E q1, q2 \in inflight :
        /\ q1.id # q2.id
        /\ q1.header = q2.header
        /\ q1.outcome = "Accepted"
        /\ q2.outcome = "expired claim"

\* C20: Object::delete_by_id_owner succeeds whether or not a row has the id
\* and the owner; when none has, every row and every count_by_owner is as
\* before; when one has, that row and no other is removed and
\* select_by_id_owner then returns none for it; and count_by_owner(o) is
\* always the inserts for o that succeeded less the deletes that met a row,
\* which is the number of rows o owns.
C20_DeleteByIdOwner ==
    /\ [](\A o \in Owners :
            /\ Object_count_by_owner(o) = Ok(probe.value.tally[o])
            /\ probe.value.tally[o] =
                 Cardinality({r \in finance_object : r.owner = o}))
    /\ [][ \A id \in 1..(MaxObject + 1), owner \in Owners :
             /\ probe'.value.call = "delete_by_id_owner"
             /\ probe'.value.id = id
             /\ probe'.value.owner = owner
             => LET met == {r \in finance_object : r.id = id /\ r.owner = owner}
                IN  /\ probe'.value.ok
                    /\ Cardinality(met) <= 1
                    /\ finance_object' = finance_object \ met
                    /\ met = {} =>
                          \A o \in Owners :
                             Object_count_by_owner(o)' = Object_count_by_owner(o)
                    /\ Object_select_by_id_owner(id, owner)' = Ok(None) ]_vars

\* C20: the last call was a delete that met a row of one owner, while the
\* other owner has a row with a lower id and one with a higher id left.
C20_Witness ==
    /\ probe.value.call = "delete_by_id_owner"
    /\ probe.value.tally[probe.value.owner] < sqlite_sequence.finance_object - 2
    /\ \A r \in finance_object : r.id # probe.value.id
    /\ \E r, q \in finance_object :
          /\ r.owner # probe.value.owner /\ r.id < probe.value.id
          /\ q.owner # probe.value.owner /\ q.id > probe.value.id

\* The values of those of a set of Options that are Some.
Given(options) == {o.value : o \in {x \in options : x.some}}

\* The ids of objects, of trades and of transactions that a request to a
\* finance route names in its path, its query and its payload.
NamedObjects(route, body) ==
    IF route = "GET /finance/objects" THEN Given({body.params.id})
    ELSE IF route \in {"PUT /finance/objects/:id", "DELETE /finance/objects/:id"}
    THEN {body.id}
    ELSE IF route = "POST /finance/trades"
    THEN {body.payload.base_object_id, body.payload.quote_object_id}
    ELSE IF route = "PUT /finance/trades/:id"
    THEN Given({body.payload.base_object_id, body.payload.quote_object_id})
    ELSE {}

TransactionRoutes ==
    { "GET /finance/trades/:trade_id/transactions",
      "POST /finance/trades/:trade_id/transactions",
      "PUT /finance/trades/:trade_id/transactions/:id",
      "DELETE /finance/trades/:trade_id/transactions/:id" }

NamedTrades(route, body) ==
    IF route = "GET /finance/trades" THEN Given({body.params.id})
    ELSE IF route \in {"PUT /finance/trades/:id", "DELETE /finance/trades/:id"}
    THEN {body.id}
    ELSE IF route \in TransactionRoutes THEN {body.trade_id}
    ELSE {}

NamedTransactions(route, body) ==
    IF route = "GET /finance/trades/:trade_id/transactions"
    THEN Given({body.params.id})
    ELSE IF route \in {"PUT /finance/trades/:trade_id/transactions/:id",
                       "DELETE /finance/trades/:trade_id/transactions/:id"}
    THEN {body.id}
    ELSE {}

\* The owners of the trades, before or after the step, that the
\* transactions of a set belong to.
TradeOwners(transactions, trades) ==
    {t.owner : t \in {q \in trades : \E x \in transactions : x.trade_id = q.id}}

\* Whether the request names a row that another subject than s owns.
NamesForeign(s, route, body) ==
    \/ \E o \in finance_object : o.id \in NamedObjects(route, body) /\ o.owner # s
    \/ \E t \in finance_trade : t.id \in NamedTrades(route, body) /\ t.owner # s
    \/ TradeOwners({x \in finance_trade_transaction :
                      x.id \in NamedTransactions(route, body)}, finance_trade) \ {s} # {}

\* The rows of a set that a step added, removed or changed.
Touched(before, after) == (before \ after) \cup (after \ before)

\* The rows in the data of a response, whatever the route.
RowsIn(data) ==
    IF "objects" \in DOMAIN data THEN {data.objects[i] : i \in DOMAIN data.objects}
    ELSE IF "trades" \in DOMAIN data THEN {data.trades[i] : i \in DOMAIN data.trades}
    ELSE IF "transactions" \in DOMAIN data
    THEN {data.transactions[i] : i \in DOMAIN data.transactions}
    ELSE IF DOMAIN data = {"id"} THEN {}
    ELSE {data}

\* The owners of rows: of objects and trades their owner, of transactions
\* the owner of their trade.
OwnersOf(rows, trades) ==
    {r.owner : r \in {q \in rows : "owner" \in DOMAIN q}}
      \cup TradeOwners({q \in rows : "trade_id" \in DOMAIN q}, trades)

\* C11: a request to a finance route accepted with subject s adds, changes
\* and removes only objects and trades owned by s and transactions of trades
\* owned by s, and answers only with such rows; and if it names an object, a
\* trade or a transaction of another subject, it changes no table and, once
\* its query and payload have passed validation, is answered 404.
C11_RowOwnership ==
    [][ \A s \in Owners :
          /\ last = Idle
          /\ last'.outcome = "Accepted"
          /\ last'.subject = Some(s)
          => LET route == last'.route
                 body == last'.body.value
                 response == last'.response
             IN  /\ OwnersOf(Touched(finance_object, finance_object'), {}) \subseteq {s}
                 /\ OwnersOf(Touched(finance_trade, finance_trade'), {}) \subseteq {s}
                 /\ OwnersOf(Touched(finance_trade_transaction,
                                     finance_trade_transaction'),
                             finance_trade \cup finance_trade') \subseteq {s}
                 /\ response.some /\ response.value.data.some
                    => OwnersOf(RowsIn(response.value.data.value), finance_trade)
                         \subseteq {s}
                 /\ NamesForeign(s, route, body)
                    => /\ finance' = finance
                       /\ response.some
                       /\ response.value.code = 404 \/ response.value = Invalid ]_vars

\* C21: Object::insert for an owner that is the id of no person returns an
\* error and leaves the table of objects, and the ids it has given, as they
\* were.
C21_ForeignKeyOwner ==
    [][ \A owner \in Owners \cup {3} :
          /\ probe'.value.call = "insert"
          /\ probe'.value.owner = owner
          /\ \A p \in person : p.id # owner
          => /\ ~probe'.value.ok
             /\ finance_object' = finance_object
             /\ \A r \in finance_object' : \E p \in person' : p.id = r.owner ]_vars

\* C21: the last call was an insert for the missing person 3, refused while
\* both persons had objects.
C21_Witness ==
    /\ probe.value.call = "insert"
    /\ probe.value.owner = 3
    /\ ~probe.value.ok
    /\ \A o \in Owners : \E r \in finance_object : r.owner = o

\* C22 as stated, for a nickname and a password that pass validation: POST
\* /person with a nickname some row has is answered "nickname already
\* exists", adds no row and issues no claim; with any other nickname it adds
\* one row, with that nickname, and answers with a claim whose sub is the id
\* of that row.
C22_Registration ==
    [][ (last'.route = "POST /person"
           /\ validate_nickname(last'.body.value.nickname).ok
           /\ validate_password(last'.body.value.password).ok)
          => IF \E row \in person : row.nickname = last'.body.value.nickname
             THEN /\ last'.response.some
                  /\ last'.response.value.message = Some("nickname already exists")
                  /\ person' = person
                  /\ issued' = issued
             ELSE /\ Cardinality(person' \ person) = 1
                  /\ person \subseteq person'
                  /\ last'.response.some
                  /\ last'.response.value.ok
                  /\ \E row \in person' \ person, r \in issued' \ issued :
                        /\ row.nickname = last'.body.value.nickname
                        /\ r.token = last'.response.value.data.value.claim
                        /\ r.claim.sub = row.id ]_vars

\* C23: POST /finance/trades for the subject s adds a trade only if both
\* base_object_id and quote_object_id are ids of objects that s owns, and
\* the trade it adds is owned by s and has these two objects; if either id
\* is that of no object, or of an object of another owner, the answer is
\* 404 and the table of trades is as before.
C23_TradePost ==
    [][ \A s \in Owners :
          (last = Idle
             /\ last'.route = "POST /finance/trades"
             /\ last'.outcome = "Accepted"
             /\ last'.subject = Some(s))
          => LET payload == last'.body.value.payload
                 owned == {o.id : o \in {q \in finance_object : q.owner = s}}
             IN  IF {payload.base_object_id, payload.quote_object_id} \subseteq owned
                 THEN \A t \in finance_trade' \ finance_trade :
                         /\ t.owner = s
                         /\ t.base_object_id = payload.base_object_id
                         /\ t.quote_object_id = payload.quote_object_id
                 ELSE /\ last'.response.some
                      /\ last'.response.value.code = 404
                      /\ ~last'.response.value.ok
                      /\ finance_trade' = finance_trade ]_vars

\* C23: a POST /finance/trades was answered 404 though both objects it
\* names exist: the base is the subject's own, the quote another owner's.
C23_Witness ==
    /\ last.route = "POST /finance/trades"
    /\ last.outcome = "Accepted"
    /\ last.response.value.code = 404
    /\ finance_trade = {}
    /\ \E b, q \in finance_object :
          /\ b.id = last.body.value.payload.base_object_id
          /\ q.id = last.body.value.payload.quote_object_id
          /\ b.owner = last.subject.value
          /\ q.owner # last.subject.value

\* The fields of the body of a PUT that are absent from it.
AbsentFrom(payload) == {f \in DOMAIN payload : ~payload[f].some}

\* Whether a PUT that met the rows targets left a table with the same rows
\* but for them, of which it changed none of the fields kept.
OnlyPresent(before, after, targets, kept, payload) ==
    /\ Cardinality(after) = Cardinality(before)
    /\ \A r \in before \ targets : r \in after
    /\ \A r \in targets :
          \E q \in after :
             /\ \A f \in kept \cup AbsentFrom(payload) : q[f] = r[f]
             /\ \A f \in DOMAIN payload \ AbsentFrom(payload) :
                   IF f \in {"alias", "remark"}
                   THEN q[f] \in {r[f], payload[f]}
                   ELSE q[f] \in {r[f], payload[f].value}

C25_TradeObjectsOwned ==
    \A t \in finance_trade :
        \A id \in {t.base_object_id, t.quote_object_id} :
            \E o \in finance_object : o.id = id /\ o.owner = t.owner

\* The registrations that have ended, and the PUTs.
Registrations == {q \in inflight : q.route = "POST /person" /\ q.pc = "Done"}
Updates == {q \in inflight : q.route = "PUT /person" /\ q.pc = "Done"}

\* Whether a request that has ended was answered 200.
Succeeded(q) == q.response.some /\ q.response.value.ok

\* C26 as stated: no two rows of person have one nickname; and of the
\* registrations with one nickname at most one was answered with a claim,
\* and every other was answered 400.
C26_UniqueNickname ==
    /\ \A r1, r2 \in person : r1.nickname = r2.nickname => r1 = r2
    /\ \A q1, q2 \in Registrations :
          (/\ q1.payload.nickname = q2.payload.nickname
           /\ Succeeded(q1) /\ Succeeded(q2))
          => q1 = q2
    /\ \A q \in Registrations :
          Succeeded(q) \/ (q.response.some /\ q.response.value.code = 400)

\* C27 as stated: when a PUT of a nickname alone and a PUT of a password
\* alone, for one subject, have both been answered 200, the subject's row
\* has that nickname and the hash of that password.
C27_BothTakeEffect ==
    \A q1, q2 \in Updates :
        (/\ q1.subject = q2.subject
         /\ q1.payload.nickname.some /\ ~q1.payload.password.some
         /\ q2.payload.password.some /\ ~q2.payload.nickname.some
         /\ Succeeded(q1) /\ Succeeded(q2))
        => \E row \in person :
              /\ row.id = q1.subject
              /\ row.nickname = q1.payload.nickname.value
              /\ row.password = Sha256Hex(q2.payload.password.value)

\* The requests to delete an object that have ended.
Deletes == {q \in inflight : q.route = "DELETE /finance/objects/:id" /\ q.pc = "Done"}

\* C28 as stated: of two requests of one person to delete one object, at
\* most one is answered 200 with the object; the other is answered 404.
C28_OneDeleteSucceeds ==
    \A q1, q2 \in Deletes :
        (/\ q1 # q2
         /\ q1.subject = q2.subject /\ q1.subject # 0
         /\ q1.path = q2.path
         /\ Succeeded(q1))
        => /\ ~Succeeded(q2)
           /\ q2.response.some /\ q2.response.value.code = 404

\* Whether the adapter, asked now, turns the token down as expired.
RejectsAsExpired(token) ==
    LET a == from_request_parts(Some(token))
    IN  /\ ~a.panic
        /\ ~a.result.ok
        /\ a.result.error = Response_bad_request("expired claim")

\* C29: no request is accepted with a claim whose expires_at is before the
\* clock; the clock never runs backwards; and a token that a request was
\* once turned down with as expired is turned down as expired by the
\* adapter ever after, as is every later request that carries it.
C29_MonotoneExpiry ==
    /\ [](\A r \in issued :
            (last.header = Some(r.token) /\ last.outcome = "Accepted")
            => now <= r.claim.exp)
    /\ [](\A token \in Refused :
            /\ RejectsAsExpired(token)
            /\ last.header = Some(token)
               => /\ last.outcome = "Rejected"
                  /\ last.response = Some(Response_bad_request("expired claim")))
    /\ [][now' >= now]_vars

\* A token issued at 0, turned down as expired before, is turned down as
\* expired again later, while a token issued since is still good.
C29_Witness ==
    /\ last.route = "GET /person"
    /\ last.header = Some(IssuedTo(1).token)
    /\ last.response = Some(Response_bad_request("expired claim"))
    /\ IssuedTo(1).token \in Refused
    /\ now > IssuedTo(1).claim.exp + 1
    /\ \E r \in issued : ~RejectsAsExpired(r.token)

=============================================================================
